---- MODULE Spec2Model ----
(***************************************************************************)
(* Model of the per-conversation message lifecycle of the messenger:       *)
(*   - ConversationModel.queueJob, the promise chain that serialises the   *)
(*     jobs of one conversation (src/unnamed/part_000);                    *)
(*   - the conversation writes of sendMessage, markRead and                *)
(*     updateExpirationTimer (src/unnamed/part_000);                       *)
(*   - MessageModel's status fields and the handlers that change them      *)
(*     (src/ts/models/message.ts).                                         *)
(* Each subsystem has its own specification over the shared variables;     *)
(* a specification leaves the variables of the other subsystems alone.     *)
(***************************************************************************)
EXTENDS Integers, Sequences, FiniteSets, TLC

VARIABLES
    \* ---- the job chain of one conversation
    jobs,        \* the jobs queued on the conversation, in submission order
    pending,     \* this.pending: 0 when unset, else the job whose promise it holds
    microtasks,  \* promise reactions waiting to run, in FIFO order
    startOrder,  \* history: the jobs in the order their bodies started
    \* ---- one outgoing message and its environment
    msg,         \* the attributes of the message
    calls,       \* handler calls suspended at an await
    now,         \* Date.now()
    readReceiptSetting, \* window.storage.get('read-receipt-setting')
    convKind,    \* the conversation of the message: private, self, group, public
    members,     \* conversation.get('members')
    successRecorded, \* history: a successful send was recorded for the message
    idemp,       \* history: consecutive handleMessageSentSuccess calls for one device
    sendLog,     \* history: what the last retrySend or resend did
    \* ---- getMessagePropStatus applied to an arbitrary message
    probe,       \* the message attributes given to getMessagePropStatus
    probeStatus, \* its result, "unset" before the call
    \* ---- the conversation and the operations that write it
    conv,        \* this.attributes of the conversation
    stored,      \* the conversation as the database holds it
    writes,      \* updateConversation calls that have not completed, in order
    pc,          \* where each operation on the conversation stands
    opJob,       \* the job of the chain an operation runs in, 0 when in none
    \* ---- sendMessage calls on the conversation and the messages they create
    sends,       \* each sendMessage call: where it stands, its message, history
    callOrder,   \* history: the sendMessage calls in the order they were made
    \* ---- the messages received in the conversation and markRead
    inbox,       \* the received messages the database holds, by arrival
    readLog,     \* history: what the last markRead call did
    \* ---- updateExpirationTimer
    timerLog,    \* history: what the last updateExpirationTimer call did
    \* ---- expiry of the message
    messageCollection, \* whether this.messageCollection holds the message
    removal,     \* history: when the message was removed, and its deadline
    expiryLog,   \* history: the setToExpire and onExpired calls, their effects
    \* ---- the typing signals of the local user
    typingRefreshTimer, \* this.typingRefreshTimer: its deadline, 0 when null
    typingPauseTimer,   \* this.typingPauseTimer: its deadline, 0 when null
    blocked,     \* BlockedNumberController holds the conversation as blocked
    typingSetting, \* window.storage.get('typing-indicators-setting')
    typingLog,   \* history: the bumpTyping calls and the signals sent
    \* ---- the typing presence of the peer
    typingTimer, \* this.typingTimer: the deadline of its timeout, 0 when null
    timeouts,    \* the timeouts global.setTimeout holds for the presence
    contactLog   \* history: the notifyTyping calls and the commits made

queueVars == <<jobs, pending, microtasks, startOrder>>

msgVars == <<msg, calls, now, readReceiptSetting, convKind, members,
             successRecorded, idemp, sendLog>>

statusVars == <<probe, probeStatus>>

convVars == <<conv, stored, writes, pc, opJob>>

sendVars == <<sends, callOrder>>

readVars == <<inbox, readLog>>

updVars == <<timerLog>>

expVars == <<messageCollection, removal, expiryLog>>

typingVars == <<typingRefreshTimer, typingPauseTimer, blocked, typingSetting,
                typingLog>>

contactVars == <<typingTimer, timeouts, contactLog>>

\* the variables of the subsystems modelled after the send path
restVars == <<readVars, updVars, expVars, typingVars, contactVars>>

otherThanRead ==
    <<queueVars, msgVars, statusVars, sendVars, updVars, expVars, typingVars,
      contactVars>>

otherThanUpd ==
    <<queueVars, msgVars, statusVars, sendVars, readVars, expVars, typingVars,
      contactVars>>

otherThanExp ==
    <<queueVars, msgVars, statusVars, convVars, sendVars, readVars, updVars,
      typingVars, contactVars>>

\* what setToExpire leaves alone, the message apart
otherThanSetToExpire ==
    <<queueVars, statusVars, convVars, sendVars, readVars, updVars,
      typingVars, contactVars>>

\* what the typing signals leave alone, the clock apart
otherThanTyping ==
    <<queueVars, statusVars, convVars, sendVars, readVars, updVars, expVars,
      contactVars>>

\* what the typing presence of the peer leaves alone, the clock apart
otherThanContact ==
    <<queueVars, statusVars, convVars, sendVars, readVars, updVars, expVars,
      typingVars>>

vars == <<queueVars, msgVars, statusVars, convVars, sendVars, restVars>>

otherThanQueue == <<msgVars, statusVars, convVars, sendVars, restVars>>

otherThanMsg == <<queueVars, statusVars, convVars, sendVars, restVars>>

otherThanConv == <<msgVars, statusVars, sendVars, restVars>>

otherThanSend == <<msgVars, statusVars, convVars, restVars>>

(***************************************************************************)
(* Bounds of the model.                                                    *)
(***************************************************************************)
MaxJobs == 3

\* how many errors the message holds
MaxErrors == 1

\* the same where retrySend and resend are on record: resend of one error
\* needs another error beside it
MaxResendErrors == 2

MaxCalls == 1

\* how many times the clock advances
MaxTicks == 2

\* how many sendMessage calls are made on the conversation
MaxSends == 2

\* how many received messages the database holds for the conversation
MaxInbox == 2

\* the longest expiration timer the conversation is given, in seconds
MaxTimer == 3

\* how many bumpTyping calls one burst of typing has
MaxBumps == 3

\* how many times the clock advances while the user types
MaxTypingTicks == 8

\* how many notifyTyping calls the conversation gets
MaxNotifies == 3

\* how many times the clock advances while the peer types
MaxContactTicks == 5

\* how many direct setToExpire calls the message gets
MaxExpiryCalls == 2

\* how many times the timer of the expiration fires for the message
MaxFires == 2

\* expireTimer of the conversation when the message was sent, in seconds
ExpireTimers == {1}

\* expireTimer is in seconds, the timestamps in milliseconds
MsPerSecond == 1000

StartTime == MsPerSecond

(***************************************************************************)
(* The job chain.                                                          *)
(*                                                                         *)
(* A job is the promise `current` of one queueJob call together with the   *)
(* body of its callback.                                                   *)
(*   body    : "queued" (callback not called yet), "running", "ok"         *)
(*             (returned / resolved), "failed" (threw / rejected)          *)
(*   promise : state of the promise queueJob returned                      *)
(*   timedOut: the wrapper's timer fired before the body completed         *)
(***************************************************************************)
NewJob(kind) ==
    [body |-> "queued", promise |-> "pending", timedOut |-> FALSE, kind |-> kind]

JobIds == 1..Len(jobs)

Settled(p) == p # "pending"

Finished(b) == b \in {"ok", "failed"}

\* previous.then(taskWithTimeout) alone: a rejection of the previous promise
\* is passed down the chain instead of starting the task.
ChainReaction_FulfilledOnly(prevOutcome) ==
    IF prevOutcome = "resolved" THEN "run" ELSE "propagate"

\* previous.then(taskWithTimeout, taskWithTimeout): the task is the handler of
\* both outcomes of the previous promise.
ChainReaction(prevOutcome) ==
    IF prevOutcome \in {"resolved", "rejected"} THEN "run" ELSE "propagate"

\* The reactions that the settling of job i's promise schedules, in the order
\* they were registered: the cleanup handler of queueJob (registered with
\* then(onFulfilled) only, so a rejection skips it), then the next job's task.
Reactions(js, i, outcome) ==
    (IF outcome = "resolved" THEN <<[type |-> "cleanup", job |-> i, prev |-> outcome]>>
                             ELSE <<>>)
    \o (IF i < Len(js) THEN <<[type |-> "run", job |-> i + 1, prev |-> outcome]>>
                       ELSE <<>>)

\* queueJob(callback)
QueueJobEffect(kind) ==
    LET i == Len(jobs) + 1
        \* previous = this.pending || Promise.resolve()
        prevOutcome == IF pending = 0 THEN "resolved" ELSE jobs[pending].promise
    IN  /\ jobs' = Append(jobs, NewJob(kind))
        \* this.pending = previous.then(taskWithTimeout, taskWithTimeout)
        /\ pending' = i
        \* a reaction on a promise that is already settled is scheduled at once
        /\ microtasks' = IF Settled(prevOutcome)
                         THEN Append(microtasks,
                                     [type |-> "run", job |-> i, prev |-> prevOutcome])
                         ELSE microtasks
        /\ UNCHANGED startOrder

QueueJob ==
    /\ Len(jobs) < MaxJobs
    /\ QueueJobEffect("task")
    /\ UNCHANGED otherThanQueue

\* The wrapper's promise settles: current adopts the outcome.
SettleJob(js, i, outcome) == [js EXCEPT ![i].promise = outcome]

\* A promise reaction runs: either the wrapped task of the next job is called,
\* or queueJob's cleanup handler runs.
RunReactionEffect ==
    LET r == Head(microtasks)
        i == r.job
    IN  IF r.type = "run"
        THEN IF ChainReaction(r.prev) = "run"
             THEN /\ jobs' = [jobs EXCEPT ![i].body = "running"]
                  /\ microtasks' = Tail(microtasks)
                  /\ startOrder' = Append(startOrder, i)
                  /\ UNCHANGED pending
             ELSE \* the rejection passes through: the task is never called
                  /\ jobs' = SettleJob(jobs, i, r.prev)
                  /\ microtasks' = Tail(microtasks) \o Reactions(jobs, i, r.prev)
                  /\ UNCHANGED <<pending, startOrder>>
        ELSE \* current.then(() => { if (this.pending === current) delete this.pending })
             /\ pending' = IF pending = i THEN 0 ELSE pending
             /\ microtasks' = Tail(microtasks)
             /\ UNCHANGED <<jobs, startOrder>>

RunReaction ==
    /\ microtasks # <<>>
    /\ RunReactionEffect
    /\ UNCHANGED otherThanQueue

\* The body of job i completes. The wrapper resolves or rejects its promise
\* with the body's outcome unless its timer has fired before.
BodyCompletes(i, ok) ==
    LET outcome == IF ok THEN "resolved" ELSE "rejected"
        done    == [jobs EXCEPT ![i].body = IF ok THEN "ok" ELSE "failed"]
    IN  /\ jobs[i].body = "running"
        /\ IF Settled(jobs[i].promise)
           THEN /\ jobs' = done
                /\ UNCHANGED microtasks
           ELSE /\ jobs' = SettleJob(done, i, outcome)
                /\ microtasks' = microtasks \o Reactions(jobs, i, outcome)
        /\ UNCHANGED <<pending, startOrder>>

FinishTask ==
    \E i \in JobIds : \E ok \in BOOLEAN :
        /\ jobs[i].kind = "task"
        /\ BodyCompletes(i, ok)
        /\ UNCHANGED otherThanQueue

\* The timer of createTaskWithTimeout fires while the body is still running:
\* the wrapper's promise rejects, the body itself is not interrupted.
TaskTimeout ==
    \E i \in JobIds :
        /\ jobs[i].body = "running"
        /\ ~Settled(jobs[i].promise)
        /\ jobs' = SettleJob([jobs EXCEPT ![i].timedOut = TRUE], i, "rejected")
        /\ microtasks' = microtasks \o Reactions(jobs, i, "rejected")
        /\ UNCHANGED <<pending, startOrder>>
        /\ UNCHANGED otherThanQueue

QueueInit ==
    /\ jobs = <<>>
    /\ pending = 0
    /\ microtasks = <<>>
    /\ startOrder = <<>>

QueueNext ==
    \/ QueueJob
    \/ RunReaction
    \/ FinishTask
    \/ TaskTimeout

(***************************************************************************)
(* The message entity (src/ts/models/message.ts).                          *)
(*                                                                         *)
(* Attributes that are absent (undefined / null) in the program are the    *)
(* empty sequence, the empty set, FALSE or 0 here; a timestamp is never 0. *)
(***************************************************************************)
Me == "me"

Peers == {"A"}

Devices == Peers \cup {Me}

ConvKinds == {"private", "self", "group", "public"}

NoNumber == "none"

\* UserUtils.isUsFromCache(pubkey)
isUsFromCache(d) == d = Me

isPrivate(kind) == kind \in {"private", "self"}

isPublic(kind) == kind = "public"

\* the conversation's id: the peer's key, our own key for the self-conversation
ConvId(kind) ==
    IF kind = "private" THEN "A" ELSE IF kind = "self" THEN Me ELSE "grp"

\* ConversationModel.getRecipients
getRecipients(kind, mem) ==
    IF isPrivate(kind) THEN {ConvId(kind)} ELSE mem \ {Me}

\* the attributes sendMessage gives a new outgoing message
NewOutgoing(recips, timer) ==
    [type |-> "outgoing", errors |-> <<>>, read_by |-> {}, delivered |-> FALSE,
     delivered_to |-> {}, sent |-> FALSE, sent_to |-> {},
     calculatingPoW |-> FALSE, synced |-> FALSE, sentSync |-> FALSE,
     recipients |-> recips, expireTimer |-> timer,
     expirationStartTimestamp |-> 0, expires_at |-> 0, unread |-> FALSE]

\* a message that was received and has not been read
NewIncoming(timer) ==
    [NewOutgoing({}, timer) EXCEPT !.type = "incoming", !.unread = TRUE]

isOutgoing(m) == m.type = "outgoing"

hasErrors(m) == Len(m.errors) > 0

\* 'read' only once every recipient has read the message
getMessagePropStatus_AllRead(m, setting) ==
    IF hasErrors(m) THEN "error"
    ELSE IF ~isOutgoing(m) THEN "null"
    ELSE IF setting /\ m.read_by # {} /\ m.recipients \subseteq m.read_by THEN "read"
    ELSE IF m.delivered \/ Cardinality(m.delivered_to) > 0 THEN "delivered"
    ELSE IF m.sent \/ Cardinality(m.sent_to) > 0 THEN "sent"
    ELSE IF m.calculatingPoW THEN "pow"
    ELSE "sending"

getMessagePropStatus(m, setting) ==
    IF hasErrors(m) THEN "error"
    ELSE IF ~isOutgoing(m) THEN "null"
    ELSE IF setting /\ Cardinality(m.read_by) > 0 THEN "read"
    ELSE IF m.delivered \/ Cardinality(m.delivered_to) > 0 THEN "delivered"
    ELSE IF m.sent \/ Cardinality(m.sent_to) > 0 THEN "sent"
    ELSE IF m.calculatingPoW THEN "pow"
    ELSE "sending"

isExpiring(m) == m.expireTimer # 0 /\ m.expirationStartTimestamp # 0

\* a deadline that is set is kept, with force or without
setToExpire_KeepDeadline(m, force) ==
    IF isExpiring(m) /\ m.expires_at = 0
    THEN [m EXCEPT !.expires_at =
                       m.expirationStartTimestamp + m.expireTimer * MsPerSecond]
    ELSE m

\* the deadline is computed again whether force is passed or not
ToBeSetToExpire_Always(m, force) == isExpiring(m)

\* if (this.isExpiring() && (force || !this.get('expires_at')))
ToBeSetToExpire(m, force) == isExpiring(m) /\ (force \/ m.expires_at = 0)

\* setToExpire(force)
setToExpire(m, force) ==
    IF ToBeSetToExpire(m, force)
    THEN [m EXCEPT !.expires_at =
                       m.expirationStartTimestamp + m.expireTimer * MsPerSecond]
    ELSE m

\* this.set(attrs): the listeners of 'change:expirationStartTimestamp' and
\* 'change:expireTimer' call setToExpire with the model as first argument, so
\* with a truthy force.
Set(old, new) ==
    IF \/ new.expirationStartTimestamp # old.expirationStartTimestamp
       \/ new.expireTimer # old.expireTimer
    THEN setToExpire(new, TRUE)
    ELSE new

\* the device is taken out of sentTo when it is already there
Union_Toggle(sentTo, d) == IF d \in sentTo THEN sentTo \ {d} ELSE sentTo \cup {d}

\* _.union(sentTo, [device]): an array without duplicates, read only for its
\* members and its length, so a set here
Union(sentTo, d) == sentTo \cup {d}

\* saveErrors(e): the new errors come first
saveErrors(m, errs) == Set(m, [m EXCEPT !.errors = errs \o m.errors])

\* the names removeOutgoingErrors removes
OutgoingErrorNames ==
    {"MessageError", "SendMessageNetworkError", "OutgoingIdentityKeyError"}

isOutgoingErrorFor(e, number) ==
    e.number = number /\ e.name \in OutgoingErrorNames

\* an exception of uploadData or of the construction of the payload
ThrownError == [number |-> NoNumber, name |-> "Error"]

\* the error the message queue reports for a device
SendError(d) == [number |-> d, name |-> "SendMessageNetworkError"]

\* the last assignments of handleMessageSentSuccess
SuccessFinish(m, sentTo) ==
    Set(m, [m EXCEPT !.sent_to = sentTo, !.sent = TRUE,
                     !.expirationStartTimestamp = now])

\* handleMessageSentFailure clearing the sent flag of the message
FailureFinish_NotSent(m, d) ==
    LET m1 == IF isUsFromCache(d) THEN [m EXCEPT !.sentSync = FALSE] ELSE m
    IN  Set(m, [m1 EXCEPT !.sent = FALSE, !.expirationStartTimestamp = now])

\* the last assignments of handleMessageSentFailure; the attribute 'sync' is
\* never set, so !this.get('sync') holds
FailureFinish(m, d) ==
    LET m1 == IF isUsFromCache(d) THEN [m EXCEPT !.sentSync = FALSE] ELSE m
    IN  Set(m, [m1 EXCEPT !.sent = TRUE, !.expirationStartTimestamp = now])

\* sendSyncMessage: marks the message as having triggered its sync message
sendSyncMessage(m) ==
    IF m.synced \/ m.sentSync THEN m ELSE [m EXCEPT !.sentSync = TRUE]

\* sendSyncMessageOnly
sendSyncMessageOnly(m) ==
    sendSyncMessage(Set(m, [m EXCEPT !.sent_to = {Me}, !.sent = TRUE,
                                     !.expirationStartTimestamp = now]))

\* removeOutgoingErrors dropping every error of the message
removeOutgoingErrors_All(m, number) == [m EXCEPT !.errors = <<>>]

\* removeOutgoingErrors(number): the errors that are kept
removeOutgoingErrors(m, number) ==
    [m EXCEPT !.errors =
        SelectSeq(m.errors, LAMBDA e : ~isOutgoingErrorFor(e, number))]

\* the recipients retrySend still has to send to
OutstandingRecipients(m, kind, mem) ==
    (m.recipients \cap getRecipients(kind, mem)) \ m.sent_to

(***************************************************************************)
(* History of the message, for the statement of the claims.                *)
(***************************************************************************)
Call(op, d, snap, recips) ==
    [op |-> op, device |-> d, snap |-> snap, recips |-> recips]

NoCall == Call("none", NoNumber, {}, {})

\* track: whether the specification follows consecutive calls at all;
\* dev, n: the device of the last completed handleMessageSentSuccess calls and
\* how many of them were consecutive; inflight: the next call for dev, while
\* it is suspended; same: every repeated call left the snapshot unchanged
NoIdemp == [track |-> TRUE, dev |-> NoNumber, n |-> 0, inflight |-> NoCall,
            same |-> TRUE]

IdempOff == [NoIdemp EXCEPT !.track = FALSE]

IdempReset == IF idemp.track THEN NoIdemp ELSE IdempOff

\* what the claims observe of a message: sent_to as a set, the derived status
Snapshot(m) == <<m.sent_to, getMessagePropStatus(m, readReceiptSetting)>>

\* A handleMessageSentSuccess call for device d completes, changing the message
\* from m to m2; c is the call when it was suspended, NoCall when it was not.
\* It is the second of two consecutive calls for d when nothing else acted on
\* the message since the first one completed; every other operation, the
\* completion of an older call included, resets the history.
IdempAfterSuccess(d, m, m2, c) ==
    IF ~idemp.track THEN IdempOff
    ELSE IF idemp.dev = d /\ idemp.n >= 1 /\ idemp.inflight = c
    THEN [NoIdemp EXCEPT !.dev = d, !.n = 2,
                         !.same = idemp.same /\ Snapshot(m2) = Snapshot(m)]
    ELSE [NoIdemp EXCEPT !.dev = d, !.n = 1]

\* a handleMessageSentSuccess call c for device d suspends at its await
IdempAtAwait(d, c) ==
    IF idemp.track /\ idemp.dev = d /\ idemp.n >= 1 /\ idemp.inflight = NoCall
    THEN [idemp EXCEPT !.inflight = c]
    ELSE IdempReset

\* what a retrySend or a resend did: whether it found the error it was asked
\* to resend, whether it uploaded the data, the route it took and the public
\* keys it handed to the Delivery Gateway
Log(op, number, found, uploaded, via, to) ==
    [track |-> TRUE, op |-> op, number |-> number, found |-> found,
     uploaded |-> uploaded, via |-> via, to |-> to]

NoLog == Log("none", NoNumber, FALSE, FALSE, "none", {})

LogOff == [NoLog EXCEPT !.track = FALSE]

LogReset == IF sendLog.track THEN NoLog ELSE LogOff

Logged(l) == IF sendLog.track THEN l ELSE LogOff

ErrorBound == IF sendLog.track THEN MaxResendErrors ELSE MaxErrors

(***************************************************************************)
(* The handlers of the message.  A handler is one step, except where it    *)
(* carries a value it read from the message across an await and uses it    *)
(* afterwards: handleMessageSentSuccess (sent_to, across sendSyncMessage)  *)
(* and retrySend (the outstanding recipients, across uploadData).  Other   *)
(* handlers run between the two halves.                                    *)
(***************************************************************************)

\* handleMessageSentSuccess(sentMessage, wrappedEnvelope), up to its await of
\* sendSyncMessage, or to its end when it does not trigger a sync message.
\* d is sentMessage.device, closed whether the encryption is ClosedGroup,
\* hasData whether the decoded content has a dataMessage; the message of an
\* open group is the one of a public conversation.
HandleMessageSentSuccess ==
    \E d \in Devices, closed \in BOOLEAN, hasData \in BOOLEAN :
      LET open == isPublic(convKind)
          sentTo == msg.sent_to
          isOurDevice == isUsFromCache(d)
          shouldTriggerSyncMessage ==
              ~isOurDevice /\ ~closed /\ ~msg.synced /\ ~msg.sentSync
          shouldMarkMessageAsSynced == isOurDevice /\ msg.sentSync
      IN  /\ closed => convKind = "group"
          /\ open => (d = "A" /\ ~closed)
          \* dataMessage is read only to trigger the sync message
          /\ hasData \/ (~open /\ shouldTriggerSyncMessage)
          /\ IF ~open /\ shouldTriggerSyncMessage /\ hasData
             THEN /\ Cardinality(calls) < MaxCalls
                  /\ msg' = sendSyncMessage(msg)
                  /\ calls' = calls \cup {Call("success", d, sentTo, {})}
                  /\ idemp' = IdempAtAwait(d, Call("success", d, sentTo, {}))
                  /\ sendLog' = LogReset
                  /\ UNCHANGED successRecorded
             ELSE /\ msg' = SuccessFinish(
                              IF ~open /\ ~shouldTriggerSyncMessage
                                       /\ shouldMarkMessageAsSynced
                              THEN [msg EXCEPT !.synced = TRUE] ELSE msg,
                              IF open THEN sentTo ELSE Union(sentTo, d))
                  /\ idemp' = IdempAfterSuccess(d, msg, msg', NoCall)
                  /\ sendLog' = LogReset
                  /\ successRecorded' = TRUE
                  /\ UNCHANGED calls
          /\ UNCHANGED <<now, readReceiptSetting, convKind, members>>
          /\ UNCHANGED otherThanMsg

\* handleMessageSentSuccess after its await of sendSyncMessage
SuccessResume ==
    \E c \in calls :
        /\ c.op = "success"
        /\ msg' = SuccessFinish(msg, Union(c.snap, c.device))
        /\ calls' = calls \ {c}
        /\ idemp' = IdempAfterSuccess(c.device, msg, msg', c)
        /\ sendLog' = LogReset
        /\ successRecorded' = TRUE
        /\ UNCHANGED <<now, readReceiptSetting, convKind, members>>
        /\ UNCHANGED otherThanMsg

\* handleMessageSentFailure(sentMessage, error): the error is saved when it is
\* an Error, then the message is marked
SentFailure(d, isError) ==
    /\ IF isError
       THEN /\ Len(msg.errors) < ErrorBound
            /\ msg' = FailureFinish(saveErrors(msg, <<SendError(d)>>), d)
       ELSE msg' = FailureFinish(msg, d)
    /\ idemp' = IdempReset
    /\ sendLog' = LogReset
    /\ UNCHANGED <<calls, now, readReceiptSetting, convKind, members,
                   successRecorded>>
    /\ UNCHANGED otherThanMsg

HandleMessageSentFailure ==
    \E d \in Devices, isError \in BOOLEAN : SentFailure(d, isError)

\* what retrySend does first: nothing while offline, else it clears the errors
RetrySendBegin(m, online) == IF online THEN Set(m, [m EXCEPT !.errors = <<>>]) ELSE m

\* retrySend(), up to its await of uploadData, or to its end when it is
\* offline or has nobody to send to
RetrySendCall(online) ==
    LET recipients == OutstandingRecipients(msg, convKind, members)
    IN  /\ msg' = RetrySendBegin(msg, online)
        /\ IF ~online
           THEN UNCHANGED calls
           ELSE IF isPublic(convKind)
           THEN /\ Cardinality(calls) < MaxCalls
                /\ calls' = calls \cup {Call("retry", NoNumber, {}, {ConvId(convKind)})}
           ELSE IF recipients = {}
           THEN UNCHANGED calls    \* 'Nobody to send to': commit only
           ELSE /\ Cardinality(calls) < MaxCalls
                /\ calls' = calls \cup {Call("retry", NoNumber, {}, recipients)}
        /\ idemp' = IdempReset
        /\ sendLog' = Logged(Log("retrySend", NoNumber, FALSE, FALSE, "none", {}))
        /\ UNCHANGED <<now, readReceiptSetting, convKind, members,
                       successRecorded>>
        /\ UNCHANGED otherThanMsg

RetrySend == \E online \in BOOLEAN : RetrySendCall(online)

\* the self-send case is not special
isSelfSend_Never(recipients) == FALSE

\* if (recipients.length === 1) { isOurDevice = isUsFromCache(recipients[0]) }
isSelfSend(recipients) ==
    /\ Cardinality(recipients) = 1
    /\ \A r \in recipients : isUsFromCache(r)

\* retrySend() after uploadData: the upload threw, or the message is handed to
\* the Delivery Gateway, or only the sync message is sent
RetryDispatchCall(c, throws) ==
    LET syncOnly == ~isPublic(convKind) /\ isSelfSend(c.recips)
    IN  /\ c.op = "retry"
        /\ calls' = calls \ {c}
        /\ IF throws
           THEN /\ Len(msg.errors) < ErrorBound
                /\ msg' = saveErrors(msg, <<ThrownError>>)
                /\ UNCHANGED successRecorded
           ELSE IF syncOnly
           THEN /\ msg' = sendSyncMessageOnly(msg)
                /\ successRecorded' = TRUE
           ELSE UNCHANGED <<msg, successRecorded>>
        /\ idemp' = IdempReset
        /\ sendLog' = Logged(
              IF throws THEN Log("retrySend", NoNumber, FALSE, TRUE, "none", {})
              ELSE IF isPublic(convKind)
              THEN Log("retrySend", NoNumber, FALSE, TRUE, "sendToGroup", c.recips)
              ELSE IF syncOnly
              THEN Log("retrySend", NoNumber, FALSE, TRUE, "sendSyncMessageOnly", {})
              ELSE Log("retrySend", NoNumber, FALSE, TRUE, "sendToPubKey", c.recips))
        /\ UNCHANGED <<now, readReceiptSetting, convKind, members>>
        /\ UNCHANGED otherThanMsg

RetryDispatch ==
    \E c \in calls : \E throws \in BOOLEAN : RetryDispatchCall(c, throws)

\* removeOutgoingErrors returning an error whoever it is of
FoundOutgoingError_AnyError(m, number) == m.errors # <<>>

\* removeOutgoingErrors(number) returning an error of the recipient
FoundOutgoingError(m, number) ==
    \E i \in 1..Len(m.errors) : isOutgoingErrorFor(m.errors[i], number)

\* resend(number): the matching errors are removed; when there was one, the
\* data is uploaded and the message sent to that recipient alone
ResendCall(number, throws) ==
    LET found == FoundOutgoingError(msg, number)
        m1 == removeOutgoingErrors(msg, number)
    IN  /\ throws => found
        /\ IF ~found
           THEN /\ msg' = m1
                /\ UNCHANGED successRecorded
           ELSE IF throws
           THEN /\ msg' = saveErrors(m1, <<ThrownError>>)
                /\ UNCHANGED successRecorded
           ELSE IF isUsFromCache(number)
           THEN /\ msg' = sendSyncMessageOnly(m1)
                /\ successRecorded' = TRUE
           ELSE /\ msg' = m1
                /\ UNCHANGED successRecorded
        /\ idemp' = IdempReset
        /\ sendLog' = Logged(
              IF ~found THEN Log("resend", number, FALSE, FALSE, "none", {})
              ELSE IF throws THEN Log("resend", number, TRUE, TRUE, "none", {})
              ELSE IF isUsFromCache(number)
              THEN Log("resend", number, TRUE, TRUE, "sendSyncMessageOnly", {})
              ELSE Log("resend", number, TRUE, TRUE, "sendToPubKey", {number}))
        /\ UNCHANGED <<calls, now, readReceiptSetting, convKind, members>>
        /\ UNCHANGED otherThanMsg

Resend == \E number \in Devices, throws \in BOOLEAN : ResendCall(number, throws)

\* A read receipt of a recipient is recorded.  The handlers and the derived
\* status read read_by and delivered_to only for being empty or not, so the
\* first receipt stands for every receipt.
RecordRead ==
    \E r \in msg.recipients :
        /\ msg.read_by = {}
        /\ msg' = Set(msg, [msg EXCEPT !.read_by = @ \cup {r}])
        /\ idemp' = IdempReset
        /\ sendLog' = LogReset
        /\ UNCHANGED <<calls, now, readReceiptSetting, convKind, members,
                       successRecorded>>
        /\ UNCHANGED otherThanMsg

\* a delivery receipt of a recipient is recorded
RecordDelivered ==
    \E r \in msg.recipients :
        /\ msg.delivered_to = {}
        /\ msg' = Set(msg, [msg EXCEPT !.delivered_to = @ \cup {r}])
        /\ idemp' = IdempReset
        /\ sendLog' = LogReset
        /\ UNCHANGED <<calls, now, readReceiptSetting, convKind, members,
                       successRecorded>>
        /\ UNCHANGED otherThanMsg

\* the message as sendMessage created it in a conversation of some kind; the
\* dispatch of sendMessageJob has handed it to the Delivery Gateway
MsgInitButHistory ==
    /\ convKind \in ConvKinds
    /\ members = IF convKind = "group" THEN Devices ELSE {}
    /\ readReceiptSetting \in BOOLEAN
    /\ \E timer \in ExpireTimers :
          msg = NewOutgoing(getRecipients(convKind, members), timer)
    /\ calls = {}
    /\ now = StartTime
    /\ successRecorded = FALSE

MsgInit == MsgInitButHistory /\ idemp = IdempOff /\ sendLog = LogOff

\* the message variables of a specification that is not about the message
MsgIdleButSetting ==
    /\ convKind = "private"
    /\ members = {}
    /\ msg = NewOutgoing({}, 0)
    /\ calls = {}
    /\ now = StartTime
    /\ successRecorded = FALSE
    /\ idemp = IdempOff
    /\ sendLog = LogOff

MsgIdle == MsgIdleButSetting /\ readReceiptSetting = FALSE

MsgNext ==
    \/ HandleMessageSentSuccess
    \/ SuccessResume
    \/ HandleMessageSentFailure
    \/ RetrySend
    \/ RetryDispatch
    \/ Resend
    \/ RecordRead
    \/ RecordDelivered

(***************************************************************************)
(* getMessagePropStatus on every combination of the fields it reads.       *)
(***************************************************************************)
ProbeRecipients == {"A", "B"}

ProbeMessages ==
    {[NewOutgoing(ProbeRecipients, 0) EXCEPT
         !.type = t, !.errors = e, !.read_by = rb, !.delivered = dl,
         !.delivered_to = dt, !.sent = s, !.sent_to = st, !.calculatingPoW = pow] :
       t \in {"outgoing", "incoming"},
       e \in {<<>>, <<ThrownError>>},
       rb \in SUBSET ProbeRecipients,
       dl \in BOOLEAN,
       dt \in {{}, {"A"}},
       s \in BOOLEAN,
       st \in {{}, {"A"}},
       pow \in BOOLEAN}

StatusInit ==
    /\ probe \in ProbeMessages
    /\ readReceiptSetting \in BOOLEAN
    /\ probeStatus = "unset"

StatusIdle ==
    /\ probe = NewOutgoing({}, 0)
    /\ probeStatus = "unset"

(***************************************************************************)
(* sendMessage and sendMessageJob (src/unnamed/part_000): the calls made   *)
(* on one conversation, the message each creates and its dispatch.         *)
(*                                                                         *)
(* The conversation is private, the self-conversation, a medium group      *)
(* ("group"), a public chat, or a legacy closed group ("legacy": type      *)
(* group, neither public nor medium).                                      *)
(***************************************************************************)
SendIds == 1..MaxSends

SendKinds == ConvKinds \cup {"legacy"}

isMediumGroup(kind) == kind = "group"

isClosedGroup(kind) == kind \in {"group", "legacy"}

\* the catch of sendMessageJob lets the exception escape
JobCatch_Rethrow(threw) == [saved |-> FALSE, ok |-> ~threw]

\* try { ... } catch (e) { await message.saveErrors(e); return null; }
JobCatch(threw) == [saved |-> threw, ok |-> TRUE]

\* the transport is taken to be there whatever window.textsecure.messaging is
transportAvailable_Ignored(messaging) == TRUE

\* if (!window.textsecure.messaging) { ... return null; }
transportAvailable(messaging) == messaging

\* a legacy closed group is dispatched to like a medium group
DispatchRoute_LegacyAsMedium(kind) ==
    IF isPublic(kind) THEN "sendToGroup"
    ELSE IF isPrivate(kind) THEN "sendToPubKey"
    ELSE IF isClosedGroup(kind) THEN "sendToGroup"
    ELSE "TypeError"

\* what sendMessageJob does with the uploaded message, by conversation
DispatchRoute(kind) ==
    IF isPublic(kind) THEN "sendToGroup"
    ELSE IF isPrivate(kind) THEN "sendToPubKey"
    ELSE IF isMediumGroup(kind) THEN "sendToGroup"
    ELSE IF isClosedGroup(kind) THEN "Error"
    ELSE "TypeError"

\* the error sendMessage saves when it is offline
NetworkError(kind) == [number |-> ConvId(kind), name |-> "SendMessageNetworkError"]

\* pc        : where the call stands
\* m         : the message, once addSingleMessage has created it
\* persisted : model.commit() has completed
\* added     : 'messageAdded' has fired; addedStatus is the status of the
\*             message at that moment
\* gateway   : the Delivery Gateway calls made for the message
\* job       : the job of the chain that dispatches the message, 0 when none
\* offline   : sendMessage found the transport unavailable
\* fault     : what threw during the dispatch, "none" when nothing did
\* escaped   : an exception left sendMessageJob
NoSend ==
    [pc |-> "idle", m |-> NewOutgoing({}, 0), persisted |-> FALSE,
     added |-> FALSE, addedStatus |-> "none", gateway |-> {}, job |-> 0,
     offline |-> FALSE, fault |-> "none", escaped |-> FALSE]

\* sendMessage(...), up to `await upgradeMessageSchema(...)`; the calls are
\* numbered in the order they are made
SendCall(s) ==
    /\ s = Len(callOrder) + 1
    /\ sends[s].pc = "idle"
    /\ sends' = [sends EXCEPT ![s].pc = "schema"]
    /\ callOrder' = Append(callOrder, s)
    /\ UNCHANGED <<queueVars, otherThanSend>>

\* window.Whisper.events.trigger('messageAdded', ...), then the conversation
\* is set and committed
FireMessageAdded(snd) ==
    [snd EXCEPT !.added = TRUE,
                !.addedStatus = getMessagePropStatus(snd.m, readReceiptSetting),
                !.pc = "convCommit"]

\* the notification fires as soon as the message is created, before it is
\* persisted
SendCreated_NotifiesFirst(s) ==
    /\ sends[s].pc = "schema"
    /\ \E timer \in {0} \cup ExpireTimers :
          sends' = [sends EXCEPT ![s] =
              [FireMessageAdded(
                  [@ EXCEPT !.m = NewOutgoing(getRecipients(convKind, members), timer)])
               EXCEPT !.pc = "msgCommit"]]
    /\ UNCHANGED <<callOrder, queueVars, otherThanSend>>

\* addSingleMessage(attributes), up to `await model.commit()`
SendCreated(s) ==
    /\ sends[s].pc = "schema"
    /\ \E timer \in {0} \cup ExpireTimers :
          sends' = [sends EXCEPT
                       ![s].pc = "msgCommit",
                       ![s].m = NewOutgoing(getRecipients(convKind, members), timer)]
    /\ UNCHANGED <<callOrder, queueVars, otherThanSend>>

\* model.commit() has completed; a public chat awaits setServerTimestamp
\* before the notification, the others fire it at once
SendPersisted(s) ==
    /\ sends[s].pc = "msgCommit"
    /\ LET snd == [sends[s] EXCEPT !.persisted = TRUE]
       IN  sends' = [sends EXCEPT ![s] =
                        IF isPublic(convKind)
                        THEN [snd EXCEPT !.pc = "serverTimestamp"]
                        ELSE FireMessageAdded(snd)]
    /\ UNCHANGED <<callOrder, queueVars, otherThanSend>>

\* model.setServerTimestamp(...) has completed
SendTimestamped(s) ==
    /\ sends[s].pc = "serverTimestamp"
    /\ sends' = [sends EXCEPT ![s] = FireMessageAdded(sends[s])]
    /\ UNCHANGED <<callOrder, queueVars, otherThanSend>>

\* this.commit() has completed: offline, the error is saved on the message
\* and sendMessage returns; else sendMessageJob is queued
SendCommitted(s) ==
    \E messaging \in BOOLEAN :
        /\ sends[s].pc = "convCommit"
        /\ IF ~transportAvailable(messaging)
           THEN /\ sends' = [sends EXCEPT
                    ![s].pc = "done",
                    ![s].offline = TRUE,
                    ![s].m = saveErrors(sends[s].m, <<NetworkError(convKind)>>)]
                /\ UNCHANGED queueVars
           ELSE /\ QueueJobEffect("sendMessageJob")
                /\ sends' = [sends EXCEPT ![s].pc = "queued",
                                          ![s].offline = ~messaging,
                                          ![s].job = Len(jobs) + 1]
        /\ UNCHANGED <<callOrder, otherThanSend>>

DispatchFaults == {"none", "upload", "build", "gateway"}

\* sendMessageJob(message), run by the chain: the upload, the construction
\* of the payload or the Delivery Gateway call may throw
SendMessageJob(s) ==
    \E fault \in DispatchFaults :
        LET snd   == sends[s]
            route == DispatchRoute(convKind)
            calls_gateway == fault \in {"none", "gateway"}
                             /\ route \in {"sendToGroup", "sendToPubKey"}
            threw == fault # "none" \/ route \in {"Error", "TypeError"}
            caught == JobCatch(threw)
        IN  /\ snd.pc = "queued"
            /\ jobs[snd.job].body = "running"
            /\ sends' = [sends EXCEPT
                 ![s].pc = "done",
                 ![s].gateway = IF calls_gateway THEN {route} ELSE {},
                 ![s].fault = IF threw /\ fault = "none" THEN route ELSE fault,
                 ![s].escaped = ~caught.ok,
                 ![s].m = IF caught.saved
                          THEN saveErrors(snd.m, <<ThrownError>>) ELSE snd.m]
            /\ BodyCompletes(snd.job, caught.ok)
            /\ UNCHANGED <<callOrder, otherThanSend>>

\* a promise reaction of the chain runs
SendRunReaction ==
    /\ microtasks # <<>>
    /\ RunReactionEffect
    /\ UNCHANGED <<sendVars, otherThanSend>>

CallSendMessage == \E s \in SendIds : SendCall(s)

SendMessageAdd == \E s \in SendIds : SendCreated(s)

SendMessagePersisted == \E s \in SendIds : SendPersisted(s)

SendMessageTimestamped == \E s \in SendIds : SendTimestamped(s)

SendMessageQueue == \E s \in SendIds : SendCommitted(s)

SendMessageDispatch == \E s \in SendIds : SendMessageJob(s)

SendIdle ==
    /\ sends = [s \in SendIds |-> NoSend]
    /\ callOrder = <<>>

\* the conversation the messages are sent in; a group may have no member
\* but the local user
SendInit ==
    /\ convKind \in SendKinds
    /\ members \in IF isClosedGroup(convKind) THEN {{Me}, Devices} ELSE {{}}
    /\ readReceiptSetting = TRUE
    /\ msg = NewOutgoing({}, 0)
    /\ calls = {}
    /\ now = StartTime
    /\ successRecorded = FALSE
    /\ idemp = IdempOff
    /\ sendLog = LogOff
    /\ SendIdle

SendNext ==
    \/ CallSendMessage
    \/ SendMessageAdd
    \/ SendMessagePersisted
    \/ SendMessageTimestamped
    \/ SendMessageQueue
    \/ SendMessageDispatch
    \/ SendRunReaction

(***************************************************************************)
(* The conversation (src/unnamed/part_000) and the three operations that   *)
(* write it.  this.set(...) followed by `await this.commit()` is one step  *)
(* up to the call of updateConversation, which is handed this.attributes;  *)
(* the operation resumes when that call has completed.                     *)
(***************************************************************************)
ConvOps == {"sendMessage", "markRead", "updateExpirationTimer"}

NewConversation ==
    [expireTimer |-> 0, unreadCount |-> 0, mentionedUs |-> FALSE,
     lastMessageStatus |-> "none"]

\* an operation is between its this.set(...) and the end of its commit
InWriteWindow(o) == \E k \in 1..Len(writes) : writes[k].op = o

\* an operation runs in the body of a job of the chain
InsideTask(o) == opJob[o] # 0 /\ jobs[opJob[o]].body = "running"

\* this.set(attrs); await this.commit(), up to the await
SetAndCommit(o, attrs) ==
    /\ conv' = attrs
    /\ writes' = Append(writes, [op |-> o, attrs |-> attrs])

\* the updateConversation call of operation o completes
Committed(o) ==
    /\ writes # <<>>
    /\ Head(writes).op = o
    /\ stored' = Head(writes).attrs
    /\ writes' = Tail(writes)

\* jobs an operation that has been called is still going to queue
ToBeQueued ==
    IF pc["sendMessage"] \in {"schema", "msgCommit", "convCommit"} THEN 1 ELSE 0

\* sendMessage(...), up to `await upgradeMessageSchema(...)`
SendMessageCall ==
    /\ pc["sendMessage"] = "idle"
    /\ Len(jobs) + ToBeQueued < MaxJobs
    /\ pc' = [pc EXCEPT !["sendMessage"] = "schema"]
    /\ UNCHANGED <<conv, stored, writes, opJob, queueVars, otherThanConv>>

\* the message is added to the conversation, up to `await model.commit()`
SendMessageCreated ==
    /\ pc["sendMessage"] = "schema"
    /\ pc' = [pc EXCEPT !["sendMessage"] = "msgCommit"]
    /\ UNCHANGED <<conv, stored, writes, opJob, queueVars, otherThanConv>>

\* this.set({lastMessage, lastMessageStatus: 'sending', active_at});
\* await this.commit()
SendMessageSet ==
    /\ pc["sendMessage"] = "msgCommit"
    /\ SetAndCommit("sendMessage", [conv EXCEPT !.lastMessageStatus = "sending"])
    /\ pc' = [pc EXCEPT !["sendMessage"] = "convCommit"]
    /\ UNCHANGED <<stored, opJob, queueVars, otherThanConv>>

\* after the commit: offline, the error is saved on the message and nothing
\* is queued; online, sendMessageJob is queued
SendMessageCommitted ==
    \E online \in BOOLEAN :
        /\ pc["sendMessage"] = "convCommit"
        /\ Committed("sendMessage")
        /\ IF online
           THEN /\ QueueJobEffect("sendMessageJob")
                /\ pc' = [pc EXCEPT !["sendMessage"] = "queued"]
                /\ opJob' = [opJob EXCEPT !["sendMessage"] = Len(jobs) + 1]
           ELSE /\ pc' = [pc EXCEPT !["sendMessage"] = "idle"]
                /\ UNCHANGED <<opJob, queueVars>>
        /\ UNCHANGED <<conv, otherThanConv>>

\* sendMessageJob returns: it catches every error and saves it on the message
SendMessageJobDone ==
    /\ pc["sendMessage"] = "queued"
    /\ InsideTask("sendMessage")
    /\ BodyCompletes(opJob["sendMessage"], TRUE)
    /\ pc' = [pc EXCEPT !["sendMessage"] = "idle"]
    /\ opJob' = [opJob EXCEPT !["sendMessage"] = 0]
    /\ UNCHANGED <<conv, stored, writes, otherThanConv>>

\* onReadMessage(message, readAt): markRead is queued
OnReadMessage ==
    /\ pc["markRead"] = "idle"
    /\ Len(jobs) + ToBeQueued < MaxJobs
    /\ QueueJobEffect("markRead")
    /\ pc' = [pc EXCEPT !["markRead"] = "queued"]
    /\ opJob' = [opJob EXCEPT !["markRead"] = Len(jobs) + 1]
    /\ UNCHANGED <<conv, stored, writes, otherThanConv>>

\* markRead(newestUnreadDate, options), once its job runs, up to its commit.
\* nRead is read.length, realUnreadCount the result of getUnreadCount.
MarkRead ==
    \E nRead \in 0..1, realUnreadCount \in 0..1 :
        /\ pc["markRead"] = "queued"
        /\ InsideTask("markRead")
        /\ nRead = 0 => realUnreadCount = 0
        /\ IF nRead = 0 /\ conv.unreadCount = 0
           THEN \* nothing newly read: markRead returns
                /\ BodyCompletes(opJob["markRead"], TRUE)
                /\ pc' = [pc EXCEPT !["markRead"] = "idle"]
                /\ opJob' = [opJob EXCEPT !["markRead"] = 0]
                /\ UNCHANGED <<conv, writes>>
           ELSE /\ SetAndCommit("markRead",
                                [conv EXCEPT !.unreadCount =
                                     IF nRead = 0 THEN 0 ELSE realUnreadCount])
                /\ pc' = [pc EXCEPT !["markRead"] = "convCommit"]
                /\ UNCHANGED <<opJob, queueVars>>
        /\ UNCHANGED <<stored, otherThanConv>>

\* markRead after its commit: the read receipts are sent and the job ends
MarkReadCommitted ==
    /\ pc["markRead"] = "convCommit"
    /\ Committed("markRead")
    /\ BodyCompletes(opJob["markRead"], TRUE)
    /\ pc' = [pc EXCEPT !["markRead"] = "idle"]
    /\ opJob' = [opJob EXCEPT !["markRead"] = 0]
    /\ UNCHANGED <<conv, otherThanConv>>

\* an awaited call of markRead rejects (getUnread, a message's markRead,
\* getUnreadCount, commit): markRead has no catch, its promise rejects and no
\* write of it completes
MarkReadThrows ==
    /\ pc["markRead"] \in {"queued", "convCommit"}
    /\ InsideTask("markRead")
    /\ BodyCompletes(opJob["markRead"], FALSE)
    /\ writes' = SelectSeq(writes, LAMBDA w : w.op # "markRead")
    /\ pc' = [pc EXCEPT !["markRead"] = "idle"]
    /\ opJob' = [opJob EXCEPT !["markRead"] = 0]
    /\ UNCHANGED <<conv, stored, otherThanConv>>

\* updateExpirationTimer(expireTimer, ...), called directly, up to its first
\* commit; a call with the timer the conversation has returns at once
UpdateExpirationTimer ==
    \E expireTimer \in {0} \cup ExpireTimers :
        /\ pc["updateExpirationTimer"] = "idle"
        /\ conv.expireTimer # expireTimer
        /\ SetAndCommit("updateExpirationTimer",
                        [conv EXCEPT !.expireTimer = expireTimer])
        /\ pc' = [pc EXCEPT !["updateExpirationTimer"] = "convCommit"]
        /\ UNCHANGED <<stored, opJob, queueVars, otherThanConv>>

\* the timer-update message is built, up to `await message.commit()`
UpdateTimerCommitted ==
    /\ pc["updateExpirationTimer"] = "convCommit"
    /\ Committed("updateExpirationTimer")
    /\ pc' = [pc EXCEPT !["updateExpirationTimer"] = "msgCommit"]
    /\ UNCHANGED <<conv, opJob, queueVars, otherThanConv>>

\* the message is committed; `await this.commit()` writes the conversation again
UpdateTimerSecondCommit ==
    /\ pc["updateExpirationTimer"] = "msgCommit"
    /\ SetAndCommit("updateExpirationTimer", conv)
    /\ pc' = [pc EXCEPT !["updateExpirationTimer"] = "convCommit2"]
    /\ UNCHANGED <<stored, opJob, queueVars, otherThanConv>>

\* after the second commit the update is sent, unless it was made remotely
UpdateTimerDone ==
    /\ pc["updateExpirationTimer"] = "convCommit2"
    /\ Committed("updateExpirationTimer")
    /\ pc' = [pc EXCEPT !["updateExpirationTimer"] = "idle"]
    /\ UNCHANGED <<conv, opJob, queueVars, otherThanConv>>

\* a promise reaction of the chain runs while the conversation is written
ConvRunReaction ==
    /\ microtasks # <<>>
    /\ RunReactionEffect
    /\ UNCHANGED <<convVars, otherThanConv>>

ConvInit ==
    /\ conv = NewConversation
    /\ stored = NewConversation
    /\ writes = <<>>
    /\ pc = [o \in ConvOps |-> "idle"]
    /\ opJob = [o \in ConvOps |-> 0]

\* the conversation variables of a specification that is not about them
ConvIdle == ConvInit

ConvNext ==
    \/ SendMessageCall
    \/ SendMessageCreated
    \/ SendMessageSet
    \/ SendMessageCommitted
    \/ SendMessageJobDone
    \/ OnReadMessage
    \/ MarkRead
    \/ MarkReadCommitted
    \/ UpdateExpirationTimer
    \/ UpdateTimerCommitted
    \/ UpdateTimerSecondCommit
    \/ UpdateTimerDone
    \/ ConvRunReaction

\* the read syncs of a conversation: markRead jobs that end or throw
ReadJobNext ==
    \/ OnReadMessage
    \/ MarkRead
    \/ MarkReadCommitted
    \/ MarkReadThrows
    \/ ConvRunReaction

(***************************************************************************)
(* markRead of the conversation, on the received messages the database     *)
(* holds.  Message i was received at time i.  A call is one step: the       *)
(* messages that arrive are written outside this code and none arrives      *)
(* here.                                                                    *)
(***************************************************************************)
InboxIds == 1..MaxInbox

\* what a received message is: a message of A, one that mentions the local
\* user, one that has errors, or a local notification (no type, no source)
InboxKinds == {"plain", "mention", "failed", "notice"}

\* m.get('source')
sender(kind) == IF kind = "notice" THEN NoNumber ELSE "A"

\* m.isIncoming()
isIncoming(kind) == kind # "notice"

\* Boolean(errors && errors.length)
readHasErrors(kind) == kind = "failed"

\* propsForMessage.text contains '@' + our number
mentionsUs(kind) == kind = "mention"

\* getUnread(): getUnreadByConversation
getUnread(box) == {i \in InboxIds : box[i].unread}

\* getUnreadCount(): getUnreadCountByConversation
getUnreadCount(box) == Cardinality(getUnread(box))

\* the unread messages received up to newestUnreadDate
oldUnread(box, newestUnreadDate) ==
    {i \in getUnread(box) : i <= newestUnreadDate}

\* m.markRead(options.readAt) on each of them
MarkMessagesRead(box, newestUnreadDate) ==
    [i \in InboxIds |->
        IF i \in oldUnread(box, newestUnreadDate)
        THEN [box[i] EXCEPT !.unread = FALSE] ELSE box[i]]

\* read, after the local notifications are filtered out
ReadWithSender(box, newestUnreadDate) ==
    {i \in oldUnread(box, newestUnreadDate) : sender(box[i].kind) # NoNumber}

\* the unread count markRead leaves on the conversation
UnreadCountWritten(cached, nRead, realUnreadCount) ==
    IF nRead = 0
    THEN IF cached # nRead THEN 0 ELSE cached
    ELSE realUnreadCount

\* the mention taken as read whatever is still unread
mentionRead_Always(box, unreadMessages, newestUnreadDate) == TRUE

\* mentionRead: no incoming message fetched as unread and received after
\* newestUnreadDate mentions the local user
mentionRead(box, unreadMessages, newestUnreadDate) ==
    LET incoming == {i \in unreadMessages : isIncoming(box[i].kind)}
        stillUnread == {i \in incoming : i > newestUnreadDate}
    IN  ~\E i \in stillUnread : mentionsUs(box[i].kind)

\* the read messages kept with their errors
ReadWithoutErrors_All(box, read) == read

\* read.filter(item => !item.hasErrors)
ReadWithoutErrors(box, read) == {i \in read : ~readHasErrors(box[i].kind)}

\* the messages the read receipts are sent for
Receipts(box, read, kind, setting, sendReadReceipts) ==
    LET ok == ReadWithoutErrors(box, read)
    IN  IF isPublic(kind) THEN {}
        ELSE IF isPrivate(kind) /\ ok # {} /\ sendReadReceipts /\ setting
        THEN ok ELSE {}

ReadLog(op, t, sync, cleared, receipts) ==
    [op |-> op, t |-> t, sync |-> sync, cleared |-> cleared,
     receipts |-> receipts]

NoReadLog == ReadLog("none", 0, FALSE, FALSE, {})

\* markRead(newestUnreadDate, {sendReadReceipts, readAt}); sync tells that
\* the call is the one onReadMessage queued
MarkReadCall(newestUnreadDate, sendReadReceipts, sync) ==
    LET unreadMessages == getUnread(inbox)
        read == ReadWithSender(inbox, newestUnreadDate)
        box2 == MarkMessagesRead(inbox, newestUnreadDate)
        realUnreadCount == getUnreadCount(box2)
        count == UnreadCountWritten(conv.unreadCount, Cardinality(read),
                                    realUnreadCount)
        clears == /\ read # {}
                  /\ mentionRead(inbox, unreadMessages, newestUnreadDate)
        conv2 == [conv EXCEPT !.unreadCount = count,
                              !.mentionedUs = IF clears THEN FALSE ELSE @]
        commits == read # {} \/ conv.unreadCount # 0
    IN  /\ inbox' = box2
        /\ conv' = conv2
        /\ stored' = IF commits THEN conv2 ELSE stored
        /\ readLog' = ReadLog("markRead", newestUnreadDate, sync,
                              clears /\ conv.mentionedUs,
                              IF read = {} THEN {}
                              ELSE Receipts(inbox, read, convKind,
                                            readReceiptSetting,
                                            sendReadReceipts))
        /\ UNCHANGED <<writes, pc, opJob>>
        /\ UNCHANGED otherThanRead

\* markRead called on the conversation
ConversationMarkRead ==
    \E newestUnreadDate \in 0..MaxInbox, sendReadReceipts \in BOOLEAN :
        MarkReadCall(newestUnreadDate, sendReadReceipts, FALSE)

\* the job onReadMessage(message, readAt) queued runs
ReadSyncMarkRead ==
    \E i \in InboxIds : MarkReadCall(i, FALSE, TRUE)

ReadIdle ==
    /\ inbox = [i \in InboxIds |-> [kind |-> "plain", unread |-> FALSE]]
    /\ readLog = NoReadLog

\* every received message is unread, and the conversation counts them
ReadInit ==
    /\ inbox \in [InboxIds -> [kind : InboxKinds, unread : {TRUE}]]
    /\ readLog = NoReadLog
    /\ \E mentioned \in BOOLEAN :
          /\ (\E i \in InboxIds : mentionsUs(inbox[i].kind)) => mentioned
          /\ conv = [NewConversation EXCEPT
                        !.unreadCount = getUnreadCount(inbox),
                        !.mentionedUs = mentioned]
    /\ stored = conv
    /\ writes = <<>>
    /\ pc = [o \in ConvOps |-> "idle"]
    /\ opJob = [o \in ConvOps |-> 0]
    /\ convKind \in {"private", "group", "public"}
    /\ members = IF convKind = "group" THEN Devices ELSE {}
    /\ readReceiptSetting \in BOOLEAN
    /\ msg = NewOutgoing({}, 0)
    /\ calls = {}
    /\ now = StartTime
    /\ successRecorded = FALSE
    /\ idemp = IdempOff
    /\ sendLog = LogOff

ReadNext ==
    \/ ConversationMarkRead
    \/ ReadSyncMarkRead

(***************************************************************************)
(* updateExpirationTimer.  The call is one step: the timer is compared and  *)
(* set before the first await, so a second call sees what the first set.    *)
(***************************************************************************)
\* the values of an expireTimer that are no number of seconds
Undefined == 0 - 2

Null == 0 - 1

\* providedExpireTimer
TimerInputs == {Undefined, Null} \cup 0..MaxTimer

\* !expireTimer
Falsy(v) == v \in {Undefined, Null, 0}

\* if (!expireTimer) { expireTimer = null; }
NormalizedTimer(providedExpireTimer) ==
    IF Falsy(providedExpireTimer) THEN Null ELSE providedExpireTimer

\* the timers compared with === alone
sameTimer_Strict(current, expireTimer) == current = expireTimer

\* this.get('expireTimer') === expireTimer ||
\* (!expireTimer && !this.get('expireTimer'))
sameTimer(current, expireTimer) ==
    current = expireTimer \/ (Falsy(expireTimer) /\ Falsy(current))

\* the update sent to the peers whoever made the change
TimerDispatch_Always(remote, kind, mem) ==
    IF kind = "self" THEN "sendSyncMessageOnly"
    ELSE IF kind = "private" THEN "sendToPubKey"
    ELSE IF mem = {Me} THEN "sendSyncMessageOnly"
    ELSE "sendToGroup"

\* the update sent to the group whoever its members are
TimerDispatch_NoSoleMember(remote, kind, mem) ==
    IF remote THEN "none"
    ELSE IF kind = "self" THEN "sendSyncMessageOnly"
    ELSE IF kind = "private" THEN "sendToPubKey"
    ELSE "sendToGroup"

\* how the update is sent: not at all when it was made remotely (receivedAt),
\* as a sync message in the conversation with ourselves or in a group of
\* which we are the only member, else to the peer or to the group
TimerDispatch(remote, kind, mem) ==
    IF remote THEN "none"
    ELSE IF kind = "self" THEN "sendSyncMessageOnly"
    ELSE IF kind = "private" THEN "sendToPubKey"
    ELSE IF mem = {Me} THEN "sendSyncMessageOnly"
    ELSE "sendToGroup"

TimerLog(op, x, remote, persisted, notices, dispatched) ==
    [op |-> op, x |-> x, remote |-> remote, persisted |-> persisted,
     notices |-> notices, dispatched |-> dispatched]

NoTimerLog == TimerLog("none", 0, FALSE, 0, 0, "none")

\* updateExpirationTimer(providedExpireTimer, providedSource, receivedAt);
\* remote tells that receivedAt was given
UpdateTimerCall(providedExpireTimer, remote) ==
    LET expireTimer == NormalizedTimer(providedExpireTimer)
    IN  /\ IF sameTimer(conv.expireTimer, expireTimer)
           THEN /\ UNCHANGED <<conv, stored>>
                /\ timerLog' = TimerLog("update", providedExpireTimer, remote,
                                        0, 0, "none")
           ELSE /\ conv' = [conv EXCEPT !.expireTimer = expireTimer]
                /\ stored' = conv'
                /\ timerLog' = TimerLog("update", providedExpireTimer, remote,
                                        1, 1,
                                        TimerDispatch(remote, convKind, members))
        /\ UNCHANGED <<writes, pc, opJob>>
        /\ UNCHANGED otherThanUpd

\* the user changes the timer of the conversation
UpdateTimerLocally ==
    \E x \in TimerInputs : UpdateTimerCall(x, FALSE)

\* a timer update of a peer, or of another device of ours, is received
UpdateTimerRemotely ==
    \E x \in TimerInputs : UpdateTimerCall(x, TRUE)

UpdIdle == timerLog = NoTimerLog

UpdInit ==
    /\ conv = NewConversation
    /\ stored = conv
    /\ writes = <<>>
    /\ pc = [o \in ConvOps |-> "idle"]
    /\ opJob = [o \in ConvOps |-> 0]
    /\ timerLog = NoTimerLog
    /\ convKind \in {"private", "self", "group"}
    /\ members \in IF convKind = "group" THEN {{Me}, Devices} ELSE {{}}
    /\ readReceiptSetting = FALSE
    /\ msg = NewOutgoing({}, 0)
    /\ calls = {}
    /\ now = StartTime
    /\ successRecorded = FALSE
    /\ idemp = IdempOff
    /\ sendLog = LogOff

UpdNext ==
    \/ UpdateTimerLocally
    \/ UpdateTimerRemotely

(***************************************************************************)
(* The typing signals of the local user: bumpTyping and its two timers.    *)
(* A timer runs out when the clock has reached its deadline, and the clock  *)
(* does not pass a deadline before the timer has run.                       *)
(***************************************************************************)
\* 10 * 1000, the delay of both timers
TypingTimeout == 10 * MsPerSecond

\* the clock advances by the longest gap between two keystrokes of a burst
TypingStep == 2 * MsPerSecond

\* isBlocked()
isBlocked(kind, blockedNumber) ==
    IF kind = "self" THEN FALSE
    ELSE IF isClosedGroup(kind) \/ isPrivate(kind) THEN blockedNumber
    ELSE FALSE

Signal(isTyping, at) == [isTyping |-> isTyping, at |-> at]

\* the calls of bumpTyping since the timers were last both clear: how many,
\* the time of the last, whether each came within TypingStep of the one
\* before, whether the conversation was blocked or unblocked meanwhile; and
\* the signals handed to the Delivery Gateway since then
TypingLog(n, last, close, disturbed, signals) ==
    [n |-> n, last |-> last, close |-> close, disturbed |-> disturbed,
     signals |-> signals]

NoTypingLog == TypingLog(0, 0, TRUE, FALSE, <<>>)

\* sendTypingMessage(isTyping): nothing in a conversation that is not
\* private, nor in the conversation with ourselves
sendTypingMessage(kind, signals, isTyping) ==
    IF ~isPrivate(kind) THEN signals
    ELSE IF kind = "self" THEN signals
    ELSE Append(signals, Signal(isTyping, now))

\* setTypingPauseTimer(): the timer is cleared and set again
setTypingPauseTimer(timer) == now + TypingTimeout

\* bumpTyping()
BumpTyping ==
    LET fresh == typingRefreshTimer = 0 /\ typingPauseTimer = 0
        log == IF fresh
               THEN TypingLog(1, now, TRUE, FALSE, <<>>)
               ELSE [typingLog EXCEPT
                        !.n = @ + 1, !.last = now,
                        !.close = @ /\ now - typingLog.last <= TypingStep]
    IN  /\ typingLog.n < MaxBumps \/ fresh
        /\ IF isPublic(convKind) \/ isMediumGroup(convKind)
           THEN /\ typingLog' = log
                /\ UNCHANGED <<typingRefreshTimer, typingPauseTimer>>
           ELSE IF ~typingSetting \/ isBlocked(convKind, blocked)
           THEN /\ typingLog' = log
                /\ UNCHANGED <<typingRefreshTimer, typingPauseTimer>>
           ELSE /\ IF typingRefreshTimer = 0
                   THEN /\ typingRefreshTimer' = now + TypingTimeout
                        /\ typingLog' =
                              [log EXCEPT !.signals =
                                  sendTypingMessage(convKind, @, TRUE)]
                   ELSE /\ typingLog' = log
                        /\ UNCHANGED typingRefreshTimer
                /\ typingPauseTimer' = setTypingPauseTimer(typingPauseTimer)
        /\ UNCHANGED <<blocked, typingSetting, msgVars, otherThanTyping>>

\* onTypingRefreshTimeout(): the refresh timer has run out
OnTypingRefreshTimeout ==
    /\ typingRefreshTimer # 0
    /\ now >= typingRefreshTimer
    /\ typingPauseTimer = 0 \/ typingRefreshTimer <= typingPauseTimer
    /\ typingLog' = [typingLog EXCEPT !.signals =
                        sendTypingMessage(convKind, @, TRUE)]
    /\ typingRefreshTimer' = now + TypingTimeout
    /\ UNCHANGED <<typingPauseTimer, blocked, typingSetting, msgVars,
                   otherThanTyping>>

\* onTypingPauseTimeout(): the pause timer has run out; clearTypingTimers()
OnTypingPauseTimeout ==
    /\ typingPauseTimer # 0
    /\ now >= typingPauseTimer
    /\ typingRefreshTimer = 0 \/ typingPauseTimer <= typingRefreshTimer
    /\ typingLog' = [typingLog EXCEPT !.signals =
                        sendTypingMessage(convKind, @, FALSE)]
    /\ typingPauseTimer' = 0
    /\ typingRefreshTimer' = 0
    /\ UNCHANGED <<blocked, typingSetting, msgVars, otherThanTyping>>

\* block(): nothing in a public conversation
Block ==
    /\ ~isPublic(convKind)
    /\ ~blocked
    /\ blocked' = TRUE
    /\ typingLog' = [typingLog EXCEPT !.disturbed = TRUE]
    /\ UNCHANGED <<typingRefreshTimer, typingPauseTimer, typingSetting,
                   msgVars, otherThanTyping>>

\* unblock()
Unblock ==
    /\ ~isPublic(convKind)
    /\ blocked
    /\ blocked' = FALSE
    /\ typingLog' = [typingLog EXCEPT !.disturbed = TRUE]
    /\ UNCHANGED <<typingRefreshTimer, typingPauseTimer, typingSetting,
                   msgVars, otherThanTyping>>

\* a timer that is set has its deadline ahead
Ahead(timer) == timer = 0 \/ timer > now

\* Date.now() advances, no timer being due
TypingTick ==
    /\ now < StartTime + MaxTypingTicks * TypingStep
    /\ Ahead(typingRefreshTimer) /\ Ahead(typingPauseTimer)
    /\ now' = now + TypingStep
    /\ UNCHANGED <<msg, calls, readReceiptSetting, convKind, members,
                   successRecorded, idemp, sendLog>>
    /\ UNCHANGED <<typingVars, otherThanTyping>>

TypingIdle ==
    /\ typingRefreshTimer = 0
    /\ typingPauseTimer = 0
    /\ blocked = FALSE
    /\ typingSetting = FALSE
    /\ typingLog = NoTypingLog

\* a conversation of some kind, blocked or not, nobody typing
TypingInit ==
    /\ convKind \in SendKinds
    /\ typingRefreshTimer = 0
    /\ typingPauseTimer = 0
    /\ blocked \in BOOLEAN
    /\ blocked => ~isPublic(convKind)
    /\ typingSetting \in BOOLEAN
    /\ typingLog = NoTypingLog
    /\ members = IF isClosedGroup(convKind) THEN Devices ELSE {}
    /\ readReceiptSetting = FALSE
    /\ msg = NewOutgoing({}, 0)
    /\ calls = {}
    /\ now = StartTime
    /\ successRecorded = FALSE
    /\ idemp = IdempOff
    /\ sendLog = LogOff

TypingNext ==
    \/ BumpTyping
    \/ OnTypingRefreshTimeout
    \/ OnTypingPauseTimeout
    \/ Block
    \/ Unblock
    \/ TypingTick

(***************************************************************************)
(* The typing presence of the peer: notifyTyping and the timeout that      *)
(* clears it. A timeout that global.setTimeout holds runs when the clock   *)
(* has reached its deadline, whatever this.typingTimer is by then, and     *)
(* clearTimeout takes it away.                                             *)
(***************************************************************************)
\* 15 * 1000, the delay of the timeout
ContactTimeout == 15 * MsPerSecond

\* the clock advances by a third of the delay
ContactStep == 5 * MsPerSecond

\* the notifyTyping calls: how many, the time of the last isTyping=true of a
\* peer in a private conversation (0 when none, or when isTyping=false came
\* after it), and the commits made
ContactLog(n, lastTrue, commits) ==
    [n |-> n, lastTrue |-> lastTrue, commits |-> commits]

NoContactLog == ContactLog(0, 0, 0)

\* the timeout is left with global.setTimeout
clearTimeout_Kept(held, handle) == held

\* clearTimeout(this.typingTimer)
clearTimeout(held, handle) == held \ {handle}

\* notifyTyping commits whatever the presence was
StateChange_Always(wasTyping, isTyping) == TRUE

\* notifyTyping commits when the presence changes: isTyping and not
\* wasTyping, or wasTyping and not isTyping
StateChange(wasTyping, isTyping) ==
    IF isTyping THEN ~wasTyping ELSE wasTyping

\* notifyTyping({ isTyping, sender })
NotifyTypingCall(isTyping, from) ==
    LET wasTyping == typingTimer # 0
        accepted == ~isUsFromCache(from) /\ isPrivate(convKind)
        cleared == IF typingTimer # 0
                   THEN clearTimeout(timeouts, typingTimer)
                   ELSE timeouts
    IN  /\ contactLog.n < MaxNotifies
        /\ IF ~accepted
           THEN /\ contactLog' = [contactLog EXCEPT !.n = @ + 1]
                /\ UNCHANGED <<typingTimer, timeouts>>
           ELSE /\ typingTimer' = IF isTyping THEN now + ContactTimeout ELSE 0
                /\ timeouts' = IF isTyping
                               THEN cleared \cup {now + ContactTimeout}
                               ELSE cleared
                /\ contactLog' =
                      ContactLog(contactLog.n + 1,
                                 IF isTyping THEN now ELSE 0,
                                 IF StateChange(wasTyping, isTyping)
                                 THEN contactLog.commits + 1
                                 ELSE contactLog.commits)
        /\ UNCHANGED <<msgVars, otherThanContact>>

NotifyTyping ==
    \E isTyping \in BOOLEAN, from \in Devices : NotifyTypingCall(isTyping, from)

\* clearContactTypingTimer(sender): a timeout has run out
ClearContactTypingTimer ==
    \E due \in timeouts :
        /\ now >= due
        /\ IF typingTimer # 0
           THEN /\ timeouts' = clearTimeout(timeouts, typingTimer) \ {due}
                /\ typingTimer' = 0
                /\ contactLog' = [contactLog EXCEPT !.commits = @ + 1]
           ELSE /\ timeouts' = timeouts \ {due}
                /\ UNCHANGED <<typingTimer, contactLog>>
        /\ UNCHANGED <<msgVars, otherThanContact>>

\* Date.now() advances, no timeout being due
ContactTick ==
    /\ now < StartTime + MaxContactTicks * ContactStep
    /\ \A due \in timeouts : due > now
    /\ now' = now + ContactStep
    /\ UNCHANGED <<msg, calls, readReceiptSetting, convKind, members,
                   successRecorded, idemp, sendLog>>
    /\ UNCHANGED <<contactVars, otherThanContact>>

ContactIdle ==
    /\ typingTimer = 0
    /\ timeouts = {}
    /\ contactLog = NoContactLog

\* a conversation of some kind, the peer not typing
ContactInit ==
    /\ convKind \in SendKinds
    /\ ContactIdle
    /\ members = IF isClosedGroup(convKind) THEN Devices ELSE {}
    /\ readReceiptSetting = FALSE
    /\ msg = NewOutgoing({}, 0)
    /\ calls = {}
    /\ now = StartTime
    /\ successRecorded = FALSE
    /\ idemp = IdempOff
    /\ sendLog = LogOff

ContactNext ==
    \/ NotifyTyping
    \/ ClearContactTypingTimer
    \/ ContactTick

\* the removal of the message from the collection, on record
Removal(done, at, start, timer) ==
    [done |-> done, at |-> at, start |-> start, timer |-> timer]

NoRemoval == Removal(FALSE, 0, 0, 0)

\* the direct calls of setToExpire (how many, the force of the last, the
\* commits they made) and the fires of the expiration (how many, and the
\* 'expired' events triggered)
ExpiryLog(calls_, force, commits, fires, expired) ==
    [calls |-> calls_, force |-> force, commits |-> commits, fires |-> fires,
     expired |-> expired]

NoExpiryLog == ExpiryLog(0, FALSE, 0, 0, 0)

\* the message is in the collection of its conversation
ExpIdle ==
    /\ messageCollection = TRUE
    /\ removal = NoRemoval
    /\ expiryLog = NoExpiryLog

\* the subsystems modelled after the send path, not in use
RestIdle == ReadIdle /\ UpdIdle /\ ExpIdle /\ TypingIdle /\ ContactIdle

ReadSpecInit ==
    /\ ReadInit /\ QueueInit /\ StatusIdle /\ SendIdle
    /\ UpdIdle /\ ExpIdle /\ TypingIdle /\ ContactIdle

ReadSpec == ReadSpecInit /\ [][ReadNext]_vars

UpdSpecInit ==
    /\ UpdInit /\ QueueInit /\ StatusIdle /\ SendIdle
    /\ ReadIdle /\ ExpIdle /\ TypingIdle /\ ContactIdle

UpdSpec == UpdSpecInit /\ [][UpdNext]_vars

TypingSpecInit ==
    /\ TypingInit /\ QueueInit /\ StatusIdle /\ ConvIdle /\ SendIdle
    /\ ReadIdle /\ UpdIdle /\ ExpIdle /\ ContactIdle

TypingSpec == TypingSpecInit /\ [][TypingNext]_vars

ContactSpecInit ==
    /\ ContactInit /\ QueueInit /\ StatusIdle /\ ConvIdle /\ SendIdle
    /\ ReadIdle /\ UpdIdle /\ ExpIdle /\ TypingIdle

ContactSpec == ContactSpecInit /\ [][ContactNext]_vars

ConvSpecInit == QueueInit /\ MsgIdle /\ StatusIdle /\ ConvInit /\ SendIdle /\ RestIdle

ConvSpec == ConvSpecInit /\ [][ConvNext]_vars

ReadJobSpec == ConvSpecInit /\ [][ReadJobNext]_vars

SendSpecInit == SendInit /\ QueueInit /\ StatusIdle /\ ConvIdle /\ RestIdle

SendSpec == SendSpecInit /\ [][SendNext]_vars

MsgSpecInit == MsgInit /\ QueueInit /\ StatusIdle /\ ConvIdle /\ SendIdle /\ RestIdle

MsgSpec == MsgSpecInit /\ [][MsgNext]_vars

\* the same message and handlers, with the history of consecutive
\* handleMessageSentSuccess calls followed
IdempSpecInit ==
    MsgInitButHistory /\ idemp = NoIdemp /\ sendLog = LogOff /\ QueueInit /\ StatusIdle /\ ConvIdle /\ SendIdle /\ RestIdle

IdempSpec == IdempSpecInit /\ [][MsgNext]_vars

\* the message with what its retrySend and resend calls did on record: the
\* send handlers, retrySend and resend
DispatchNext ==
    \/ HandleMessageSentSuccess
    \/ SuccessResume
    \/ HandleMessageSentFailure
    \/ RetrySend
    \/ RetryDispatch
    \/ Resend

DispatchSpecInit ==
    /\ MsgInitButHistory
    /\ idemp = IdempOff
    /\ sendLog = NoLog
    /\ QueueInit /\ StatusIdle /\ ConvIdle /\ SendIdle /\ RestIdle

DispatchSpec == DispatchSpecInit /\ [][DispatchNext]_vars

(***************************************************************************)
(* The expiration of a message: the operations that write                  *)
(* expirationStartTimestamp, with a clock that advances between them.      *)
(***************************************************************************)
\* sendSyncMessageOnly(dataMessage), as updateExpirationTimer calls it on the
\* message it has synthesized
SendSyncMessageOnly ==
    /\ isOutgoing(msg)
    /\ msg' = sendSyncMessageOnly(msg)
    /\ successRecorded' = TRUE
    /\ idemp' = IdempReset
    /\ sendLog' = LogReset
    /\ UNCHANGED <<calls, now, readReceiptSetting, convKind, members>>
    /\ UNCHANGED otherThanMsg

\* markMessageSyncOnly(dataMessage)
MarkMessageSyncOnly ==
    /\ isOutgoing(msg)
    /\ msg' = Set(msg, [msg EXCEPT !.sent_to = {Me}, !.sent = TRUE,
                                   !.expirationStartTimestamp = now])
    /\ successRecorded' = TRUE
    /\ idemp' = IdempReset
    /\ sendLog' = LogReset
    /\ UNCHANGED <<calls, now, readReceiptSetting, convKind, members>>
    /\ UNCHANGED otherThanMsg

Min(a, b) == IF a <= b THEN a ELSE b

\* MessageModel.markRead(readAt) on message m; readAt is 0 when it is absent
markRead(m, readAt) ==
    LET m1 == [m EXCEPT !.unread = FALSE]
    IN  IF m.expireTimer # 0 /\ m.expirationStartTimestamp = 0
        THEN Set(m1, [m1 EXCEPT !.expirationStartTimestamp =
                                    Min(now, IF readAt # 0 THEN readAt ELSE now)])
        ELSE m1

\* the times a read can have happened at: not given, or a time up to now
ReadAts == {0} \cup {StartTime + k * MsPerSecond : k \in 0..MaxTicks}

MessageMarkRead ==
    \E readAt \in ReadAts :
        /\ readAt <= now
        /\ msg.unread
        /\ msg' = markRead(msg, readAt)
        /\ idemp' = IdempReset
        /\ sendLog' = LogReset
        /\ UNCHANGED <<calls, now, readReceiptSetting, convKind, members,
                       successRecorded>>
        /\ UNCHANGED otherThanMsg

\* Date.now() advances
Tick ==
    /\ now < StartTime + MaxTicks * MsPerSecond
    /\ now' = now + MsPerSecond
    /\ UNCHANGED <<msg, calls, readReceiptSetting, convKind, members,
                   successRecorded, idemp, sendLog>>
    /\ UNCHANGED otherThanMsg

\* Infinity, which msTilExpire returns for a message that does not expire
Infinity == 1000000000

Max(a, b) == IF a >= b THEN a ELSE b

\* msTilExpire with the timer left out of the deadline
msTilExpire_NoDelta(m, t) ==
    IF ~isExpiring(m) THEN Infinity
    ELSE Max(0, m.expirationStartTimestamp - t)

\* msTilExpire() at time t
msTilExpire(m, t) ==
    IF ~isExpiring(m) THEN Infinity
    ELSE Max(0, m.expirationStartTimestamp + m.expireTimer * MsPerSecond - t)

\* isExpired() at time t
isExpired(m, t) == msTilExpire(m, t) <= 0

\* the timer the expiration manager set for expires_at has run out
ExpiryDue(m, t) == m.expires_at # 0 /\ t >= m.expires_at

\* removeMessage of onExpired, on a collection that holds the message or does
\* not: whether it holds it afterwards, and whether 'expired' is triggered

\* the event is triggered whether the message was there or not
removeMessage_Unchecked(held) == [held |-> FALSE, expired |-> TRUE]

removeMessage(held) ==
    IF ~held THEN [held |-> FALSE, expired |-> FALSE]
    ELSE [held |-> FALSE, expired |-> TRUE]

\* the timer set for expires_at fires and the conversation gets 'expired':
\* onExpired(message) removes the message from messageCollection when it is
\* still there
OnExpired ==
    LET done == removeMessage(messageCollection)
    IN  /\ ExpiryDue(msg, now)
        /\ expiryLog.fires < MaxFires
        /\ messageCollection' = done.held
        /\ removal' = IF done.expired
                      THEN Removal(TRUE, now, msg.expirationStartTimestamp,
                                   msg.expireTimer)
                      ELSE removal
        /\ expiryLog' = [expiryLog EXCEPT
                             !.fires = @ + 1,
                             !.expired = IF done.expired THEN @ + 1 ELSE @]
        /\ UNCHANGED otherThanExp

\* setToExpire(force) called on the message as it is, as the constructor and
\* addSingleMessage call it; the message is committed when it has an id
SetToExpireCall(force, hasId) ==
    /\ expiryLog.calls < MaxExpiryCalls
    /\ msg' = setToExpire(msg, force)
    /\ expiryLog' = [expiryLog EXCEPT
                         !.calls = @ + 1,
                         !.force = force,
                         !.commits = IF ToBeSetToExpire(msg, force) /\ hasId
                                     THEN @ + 1 ELSE @]
    /\ UNCHANGED <<calls, now, readReceiptSetting, convKind, members,
                   successRecorded, idemp, sendLog>>
    /\ UNCHANGED <<messageCollection, removal, otherThanSetToExpire>>

SetToExpire ==
    \E force \in BOOLEAN, hasId \in BOOLEAN : SetToExpireCall(force, hasId)

\* the handlers act on an outgoing message only
OutgoingSuccess == isOutgoing(msg) /\ HandleMessageSentSuccess

OutgoingFailure == isOutgoing(msg) /\ HandleMessageSentFailure

\* a message that was sent, or one that was received and is unread, in a
\* private conversation or a group, with or without a timer
ExpireInit ==
    /\ convKind \in {"private", "group"}
    /\ members = IF convKind = "group" THEN Devices ELSE {}
    /\ readReceiptSetting = TRUE
    /\ \E timer \in {0} \cup ExpireTimers :
          \/ msg = NewOutgoing(getRecipients(convKind, members), timer)
          \/ msg = NewIncoming(timer)
    /\ calls = {}
    /\ now = StartTime
    /\ successRecorded = FALSE
    /\ idemp = IdempOff
    /\ sendLog = LogOff

ExpireNext ==
    \/ OutgoingSuccess
    \/ SuccessResume
    \/ OutgoingFailure
    \/ SendSyncMessageOnly
    \/ MarkMessageSyncOnly
    \/ MessageMarkRead
    \/ Tick
    \/ OnExpired

\* setToExpire called directly, between the writes of the start
SetToExpireNext ==
    \/ SetToExpire
    \/ MarkMessageSyncOnly
    \/ MessageMarkRead
    \/ Tick

ExpireSpecInit == ExpireInit /\ QueueInit /\ StatusIdle /\ ConvIdle /\ SendIdle /\ RestIdle

ExpireSpec == ExpireSpecInit /\ [][ExpireNext]_vars

SetToExpireSpec == ExpireSpecInit /\ [][SetToExpireNext]_vars

\* getMessagePropStatus is called on the probe
ComputeStatus ==
    /\ probeStatus = "unset"
    /\ probeStatus' = getMessagePropStatus(probe, readReceiptSetting)
    /\ UNCHANGED <<probe, queueVars, msgVars, convVars, sendVars, restVars>>

StatusSpecInit == StatusInit /\ QueueInit /\ MsgIdleButSetting /\ ConvIdle /\ SendIdle /\ RestIdle

StatusNext == ComputeStatus

StatusSpec == StatusSpecInit /\ [][StatusNext]_vars

Init == QueueInit /\ MsgIdle /\ StatusIdle /\ ConvIdle /\ SendIdle /\ RestIdle

Next == QueueNext

Spec == Init /\ [][Next]_vars

\* Scheduling of the runtime: a scheduled promise reaction runs, and a running
\* wrapped task either completes or has its timer fire.
FairSpec ==
    /\ Spec
    /\ WF_vars(RunReaction)
    /\ WF_vars(FinishTask \/ TaskTimeout)

(***************************************************************************)
(* The job chain: claims C1 to C4.                                         *)
(***************************************************************************)
StartsBody(i) == jobs[i].body = "queued" /\ jobs'[i].body = "running"

\* C1: the bodies start in submission order, and when the body of job i
\* starts, the promise of every earlier job has settled and the body of
\* every earlier job has finished, so that all its effects are committed.
C1_StartsAfterEarlierCommitted ==
    [][\A i \in JobIds :
          StartsBody(i) =>
              /\ startOrder' = [k \in 1..i |-> k]
              /\ \A k \in 1..(i - 1) :
                    Settled(jobs[k].promise) /\ Finished(jobs[k].body)]_vars

\* C2: a job that fails or exceeds its timeout never blocks the chain: every
\* job queued on the conversation eventually has its body started.
C2_EveryJobStarts ==
    \A j \in 1..MaxJobs :
        (Len(jobs) >= j) ~> (Len(jobs) >= j /\ jobs[j].body # "queued")

\* a job whose promise rejected, by a failure and by a timeout, each followed
\* by a job whose body has started
C2_Witness ==
    \E i \in JobIds, k \in JobIds :
        /\ i + 1 \in JobIds /\ k + 1 \in JobIds
        /\ jobs[i].body = "failed" /\ ~jobs[i].timedOut
        /\ jobs[i + 1].body # "queued"
        /\ jobs[k].timedOut /\ jobs[k].promise = "rejected"
        /\ jobs[k + 1].body # "queued"

\* C3: at no time are the bodies of two jobs of the conversation running.
C3_OneBodyInFlight ==
    Cardinality({i \in JobIds : jobs[i].body = "running"}) <= 1

\* C4: the promise queueJob returned for a job settles with the outcome of
\* that job alone: resolved only if its body succeeded, rejected only if its
\* body failed or exceeded its timeout, and settled as soon as its body has
\* finished, whatever the outcome of the earlier jobs.
C4_OwnOutcomeOnly ==
    \A i \in JobIds :
        /\ jobs[i].promise = "resolved" => (jobs[i].body = "ok" /\ ~jobs[i].timedOut)
        /\ jobs[i].promise = "rejected" => (jobs[i].body = "failed" \/ jobs[i].timedOut)
        /\ (jobs[i].body = "ok" /\ ~jobs[i].timedOut) => jobs[i].promise = "resolved"
        /\ jobs[i].body = "failed" => jobs[i].promise = "rejected"

\* a job resolved after a rejected one, and a job rejected after a resolved one
C4_Witness ==
    \E i \in JobIds, k \in JobIds :
        /\ i + 1 \in JobIds /\ k + 1 \in JobIds
        /\ jobs[i].promise = "rejected" /\ jobs[i + 1].promise = "resolved"
        /\ jobs[k].promise = "resolved" /\ jobs[k + 1].body = "failed"

(***************************************************************************)
(* The writes of the conversation: claim C5.                               *)
(***************************************************************************)
\* C5: every set-and-commit of the conversation by sendMessage, markRead and
\* updateExpirationTimer happens inside a running job of the chain, and no
\* two of these operations are between their set and the end of their commit
\* at the same time.
C5_ConversationWritesInsideChain ==
    /\ \A o \in ConvOps : InWriteWindow(o) => InsideTask(o)
    /\ Cardinality({o \in ConvOps : InWriteWindow(o)}) <= 1

(***************************************************************************)
(* The derived status of a message: claims C6 to C10.                      *)
(***************************************************************************)
\* C6: getMessagePropStatus is 'error' iff errors is non-empty; otherwise,
\* for an outgoing message, 'read' iff the read-receipt setting is enabled
\* and read_by has an entry; otherwise 'delivered' iff delivered is set or
\* delivered_to is non-empty; otherwise 'sent' iff sent is set or sent_to is
\* non-empty; otherwise 'pow' iff calculatingPoW; otherwise 'sending'.
C6_DerivedView ==
    probeStatus # "unset" =>
        LET err  == probe.errors # <<>>
            read == readReceiptSetting /\ probe.read_by # {}
            dlv  == probe.delivered \/ probe.delivered_to # {}
            snt  == probe.sent \/ probe.sent_to # {}
            pow  == probe.calculatingPoW
        IN  /\ probeStatus = "error" <=> err
            /\ (~err /\ probe.type = "outgoing") =>
                  /\ probeStatus = "read" <=> read
                  /\ probeStatus = "delivered" <=> (~read /\ dlv)
                  /\ probeStatus = "sent" <=> (~read /\ ~dlv /\ snt)
                  /\ probeStatus = "pow" <=> (~read /\ ~dlv /\ ~snt /\ pow)
                  /\ probeStatus = "sending" <=> (~read /\ ~dlv /\ ~snt /\ ~pow)

\* 'read' computed for a message one of whose two recipients has read it
C6_Witness ==
    /\ probeStatus = "read"
    /\ probe.read_by = {"A"}
    /\ probe.recipients = {"A", "B"}
    /\ probe.delivered /\ probe.sent /\ probe.calculatingPoW

Status(m) == getMessagePropStatus(m, readReceiptSetting)

\* C7: once the status of the message is 'read', a delivery failure recorded
\* for a device that is not among its readers does not move the status to
\* 'error'.
C7_ReadNeverBackToError ==
    [][\A d \in Devices :
          (Status(msg) = "read" /\ d \notin msg.read_by /\ SentFailure(d, TRUE))
              => Status(msg') # "error"]_vars

\* the delivery watermark: the derived status with the 'error' override ignored
Watermark(m) == Status([m EXCEPT !.errors = <<>>])

WatermarkRank(w) ==
    CASE w = "read" -> 3
      [] w = "delivered" -> 2
      [] w = "sent" -> 1
      [] OTHER -> 0

\* C8: ignoring the 'error' override, the watermark of the message
\* (sending < sent < delivered < read) never decreases.
C8_WatermarkNeverDecreases ==
    [][WatermarkRank(Watermark(msg')) >= WatermarkRank(Watermark(msg))]_vars

\* a message that was read and then had a failure and a sync-only send recorded
C8_Witness ==
    /\ Watermark(msg) = "read"
    /\ hasErrors(msg)
    /\ msg.sent /\ msg.sent_to = {Me}
    /\ successRecorded

\* C9: the status of the message is 'sent' only if a successful send was
\* recorded for it.
C9_SentOnlyAfterSuccess ==
    Status(msg) = "sent" => successRecorded

\* C10: the second of two consecutive handleMessageSentSuccess calls for the
\* same device leaves sent_to and the derived status as the first left them.
C10_SuccessIdempotent ==
    idemp.n = 2 => idemp.same

\* the second call for a device has completed on a message sent to it
C10_Witness ==
    /\ idemp.n = 2
    /\ idemp.dev \in msg.sent_to

(***************************************************************************)
(* Expiration and dispatch: claims C11 to C20.                             *)
(***************************************************************************)
\* C11: expirationStartTimestamp is set at most once: once the message has
\* one, no later operation on the message changes it.
C11_ExpirationStartSetOnce ==
    [][msg.expirationStartTimestamp # 0 =>
          msg'.expirationStartTimestamp = msg.expirationStartTimestamp]_vars

SendStatus(s) == getMessagePropStatus(sends[s].m, readReceiptSetting)

Dispatched(s) == sends[s].pc = "done" /\ sends[s].job # 0

\* C12: an exception raised during the dispatch of a message (upload,
\* construction of the payload, Delivery Gateway call) is recorded in the
\* errors of that message, whose status becomes 'error', and never leaves
\* the queued job: the job completes and its promise resolves.
C12_DispatchErrorsRecorded ==
    \A s \in SendIds :
        (Dispatched(s) /\ sends[s].fault # "none") =>
            /\ hasErrors(sends[s].m)
            /\ SendStatus(s) = "error"
            /\ ~sends[s].escaped
            /\ jobs[sends[s].job].body = "ok"
            /\ jobs[sends[s].job].promise = "resolved"

\* the Delivery Gateway call of one message threw and the upload of another
C12_Witness ==
    \E s \in SendIds, t \in SendIds :
        /\ Dispatched(s) /\ sends[s].fault = "gateway" /\ sends[s].gateway # {}
        /\ Dispatched(t) /\ sends[t].fault = "upload"

\* C13: 'messageAdded' fires only once the message is persisted and while
\* its status is 'sending'; the dispatch is enqueued, and the Delivery
\* Gateway called, only after 'messageAdded' has fired.
C13_AddedBeforeDispatch ==
    \A s \in SendIds :
        /\ sends[s].added => (sends[s].persisted /\ sends[s].addedStatus = "sending")
        /\ sends[s].job # 0 => sends[s].added
        /\ sends[s].gateway # {} => sends[s].added

\* a message of a public chat and one more, both handed to the gateway
C13_Witness ==
    /\ isPublic(convKind)
    /\ \A s \in SendIds : sends[s].added /\ sends[s].gateway # {}

\* C14: the dispatch jobs of two sendMessage calls are on the chain in the
\* order in which sendMessage was called, and their bodies never run at the
\* same time.
C14_DispatchInCallOrder ==
    \A a \in SendIds, b \in SendIds :
        (a < b /\ sends[a].job # 0 /\ sends[b].job # 0) =>
            /\ sends[a].job < sends[b].job
            /\ ~(jobs[sends[a].job].body = "running"
                 /\ jobs[sends[b].job].body = "running")

\* C15: sendMessage called while the transport is unavailable persists the
\* message, records a SendMessageNetworkError on it (status 'error'), queues
\* no job and calls no gateway; retrySend still has somebody to send to.
C15_OfflineRecordedAndRetryable ==
    \A s \in SendIds :
        sends[s].offline =>
            /\ sends[s].persisted
            /\ sends[s].m.errors = <<NetworkError(convKind)>>
            /\ SendStatus(s) = "error"
            /\ sends[s].job = 0
            /\ sends[s].gateway = {}
            /\ \/ isPublic(convKind)
               \/ OutstandingRecipients(sends[s].m, convKind, members) # {}

\* C16: the dispatch of a message in a legacy closed group calls no Delivery
\* Gateway and records an error on the message, whose status is 'error'.
C16_LegacyGroupSurfaced ==
    \A s \in SendIds :
        (convKind = "legacy" /\ Dispatched(s)) =>
            /\ sends[s].gateway = {}
            /\ hasErrors(sends[s].m)
            /\ SendStatus(s) = "error"

\* a message of a legacy group whose upload succeeded has been dispatched
C16_Witness ==
    /\ convKind = "legacy"
    /\ \E s \in SendIds : Dispatched(s) /\ sends[s].fault = "Error"

\* C17: in a conversation that is not public, every recipient retrySend hands
\* to the Delivery Gateway is, when it is handed over, an intended recipient
\* and a current member of the conversation that is not in sent_to.
C17_RetryOnlyOutstanding ==
    [][\A c \in calls : \A throws \in BOOLEAN :
          (RetryDispatchCall(c, throws) /\ ~isPublic(convKind)) =>
              sendLog'.to \subseteq
                  OutstandingRecipients(msg, convKind, members)]_vars

\* C18: a retrySend that finds no outstanding recipient calls no Delivery
\* Gateway and changes no field of the message, its errors and its derived
\* status included.
C18_RetryNobodyIsNoOp ==
    [][(/\ RetrySendCall(TRUE)
        /\ ~isPublic(convKind)
        /\ OutstandingRecipients(msg, convKind, members) = {}) =>
           /\ msg' = msg
           /\ calls' = calls
           /\ sendLog'.to = {}]_vars

\* the message holds an error recorded for the recipient
HasErrorOf(m, number) ==
    \E i \in 1..Len(m.errors) : m.errors[i].number = number

\* C19: resend(recipientId) on a message without an outgoing error recorded
\* for recipientId uploads nothing, calls no Delivery Gateway and leaves the
\* errors of the message, and so its derived status, unchanged.
C19_ResendWithoutErrorFailsFast ==
    [][\A number \in Devices :
          (ResendCall(number, FALSE) /\ ~HasErrorOf(msg, number)) =>
              /\ ~sendLog'.uploaded
              /\ sendLog'.via = "none" /\ sendLog'.to = {}
              /\ msg'.errors = msg.errors
              /\ getMessagePropStatus(msg', readReceiptSetting)
                    = getMessagePropStatus(msg, readReceiptSetting)]_vars

\* a resend for a device without an error has returned on a message that
\* holds the error of another device
C19_Witness ==
    /\ sendLog.op = "resend" /\ ~sendLog.found
    /\ hasErrors(msg)

\* the errors of m that are not of the recipient, in their order
ErrorsOfOthers(m, number) ==
    SelectSeq(m.errors, LAMBDA e : e.number # number)

C21_MarkReadIdempotent ==
    [][\A t \in 0..MaxInbox : \A srr \in BOOLEAN, sync \in BOOLEAN :
          (/\ MarkReadCall(t, srr, sync)
           /\ readLog.op = "markRead" /\ readLog.t = t) =>
              conv'.unreadCount = conv.unreadCount]_vars

\* C22: whenever markRead changes unreadCount, the new value is the number
\* of messages still unread in the database.
C22_UnreadCountFromStore ==
    [][\A t \in 0..MaxInbox : \A srr \in BOOLEAN, sync \in BOOLEAN :
          (/\ MarkReadCall(t, srr, sync)
           /\ conv'.unreadCount # conv.unreadCount) =>
              conv'.unreadCount =
                  Cardinality({i \in InboxIds : inbox'[i].unread})]_vars

\* an incoming message that mentions the local user is unread in the box
UnreadMention(box) ==
    \E i \in InboxIds :
        box[i].unread /\ box[i].kind = "mention"

\* C23: markRead changes mentionedUs only to clear it, and only when no
\* incoming message that is still unread after the call mentions the local
\* user.
C23_MentionClearedOnlyWhenRead ==
    [][\A t \in 0..MaxInbox : \A srr \in BOOLEAN, sync \in BOOLEAN :
          (/\ MarkReadCall(t, srr, sync)
           /\ conv'.mentionedUs # conv.mentionedUs) =>
              /\ ~conv'.mentionedUs
              /\ ~UnreadMention(inbox')]_vars

\* a markRead that read the first message has left the flag set, for the
\* unread message that mentions the local user
C23_Witness ==
    /\ readLog.op = "markRead" /\ readLog.t >= 1
    /\ ~inbox[1].unread /\ inbox[1].kind # "notice"
    /\ UnreadMention(inbox)
    /\ conv.mentionedUs

\* the messages a markRead step has newly marked read
NewlyRead == {i \in InboxIds : inbox[i].unread /\ ~inbox'[i].unread}

\* C24: markRead sends read receipts only in a conversation that is not
\* public, with the read-receipt setting on, when the caller did not pass
\* sendReadReceipts = false and a newly read message has no errors; a
\* receipt never names a message with errors, and the markRead of a read
\* sync sends none.
C24_ReadReceiptsOnlyWhenAllowed ==
    [][\A t \in 0..MaxInbox : \A srr \in BOOLEAN, sync \in BOOLEAN :
          MarkReadCall(t, srr, sync) =>
              /\ readLog'.receipts # {} =>
                    /\ convKind # "public"
                    /\ readReceiptSetting
                    /\ srr
                    /\ \E i \in NewlyRead : inbox[i].kind # "failed"
              /\ readLog'.receipts \subseteq NewlyRead
              /\ \A i \in readLog'.receipts : inbox[i].kind # "failed"
              /\ sync => readLog'.receipts = {}]_vars

\* receipts were sent by a markRead that also read a message with errors
C24_Witness ==
    /\ readLog.op = "markRead" /\ readLog.receipts # {}
    /\ \E i \in InboxIds :
          i <= readLog.t /\ inbox[i].kind = "failed" /\ i \notin readLog.receipts

\* the two timers are the same setting: both disabled, or the same seconds
SameSetting(a, b) ==
    \/ a \in {Undefined, Null, 0} /\ b \in {Undefined, Null, 0}
    \/ a = b

\* a step of updateExpirationTimer that did nothing
TimerNoOp ==
    /\ conv' = conv /\ stored' = stored
    /\ timerLog'.persisted = 0
    /\ timerLog'.notices = 0
    /\ timerLog'.dispatched = "none"

\* C25: updateExpirationTimer called with the timer the conversation has
\* (undefined, null and 0 being the same disabled timer) persists nothing,
\* makes no system message and dispatches nothing; so does a call with the
\* value of the call before it.
C25_SameTimerIsNoOp ==
    [][\A x \in TimerInputs : \A remote \in BOOLEAN :
          UpdateTimerCall(x, remote) =>
              /\ SameSetting(conv.expireTimer, x) => TimerNoOp
              /\ (timerLog.op = "update" /\ timerLog.x = x) => TimerNoOp]_vars

\* the timer was disabled with 0, and a second call with 0 did nothing
C25_Witness ==
    /\ timerLog.op = "update" /\ timerLog.x = 0
    /\ timerLog.persisted = 0
    /\ conv.expireTimer = Null

\* C26: updateExpirationTimer called with a receivedAt persists the new timer
\* and makes the system message, and sends nothing: no Delivery Gateway call
\* and no sync message.
C26_RemoteChangeNotPropagated ==
    [][\A x \in TimerInputs :
          UpdateTimerCall(x, TRUE) =>
              /\ timerLog'.dispatched = "none"
              /\ ~SameSetting(conv.expireTimer, x) =>
                    /\ SameSetting(conv'.expireTimer, x)
                    /\ stored' = conv'
                    /\ timerLog'.persisted = 1
                    /\ timerLog'.notices = 1]_vars

\* a change received from a peer was persisted
C26_Witness ==
    /\ timerLog.op = "update" /\ timerLog.remote
    /\ timerLog.notices = 1
    /\ conv.expireTimer = timerLog.x /\ stored = conv

SignalsOf(isTyping) ==
    SelectSeq(typingLog.signals, LAMBDA g : g.isTyping = isTyping)

\* C28: a burst of bumpTyping calls at most 2 seconds apart, in a private
\* conversation where typing signals are allowed throughout, has sent, once
\* its timers are clear again, exactly one isTyping = true and exactly one
\* isTyping = false, the latter 10 seconds after the last call.
C28_OneTrueOneFalse ==
    (/\ convKind = "private" /\ typingSetting
     /\ ~typingLog.disturbed /\ typingLog.close
     /\ typingLog.n >= 1
     /\ typingLog.signals # <<>>
     /\ typingRefreshTimer = 0 /\ typingPauseTimer = 0) =>
        /\ Len(SignalsOf(TRUE)) = 1
        /\ Len(SignalsOf(FALSE)) = 1
        /\ SignalsOf(FALSE)[1].at = typingLog.last + 10 * 1000

\* a step hands a typing signal to the Delivery Gateway
SignalSent ==
    /\ typingLog'.signals # typingLog.signals
    /\ typingLog'.signals # <<>>

SentIsTyping == typingLog'.signals[Len(typingLog'.signals)].isTyping

\* C29: isTyping = false is sent only by the pause timer running out, 10
\* seconds or more after the most recent bumpTyping, and both timers are
\* clear afterwards; with both timers clear, isTyping = true is sent by
\* bumpTyping alone.
C29_FalseOnlyOnPause ==
    [][SignalSent =>
          /\ ~SentIsTyping =>
                /\ typingPauseTimer # 0 /\ now >= typingPauseTimer
                /\ now >= typingLog.last + 10 * 1000
                /\ typingPauseTimer' = 0 /\ typingRefreshTimer' = 0
          /\ (SentIsTyping /\ typingRefreshTimer = 0) =>
                typingLog'.last = now /\ typingPauseTimer' = now + 10 * 1000
      ]_vars

\* C30: no typing signal is sent in a conversation that is public, a group,
\* blocked or the one with ourselves, nor while the typing-indicators
\* setting is off.
C30_NoSignalWhenSuppressed ==
    [][SignalSent =>
          /\ convKind = "private"
          /\ ~blocked
          /\ typingSetting]_vars

(***************************************************************************)
(* The typing presence of the peer, the markRead job, expiry, retrySend,   *)
(* the propagation of the timer, the job chain and sent_to: claims C31 to  *)
(* C40.                                                                    *)
(***************************************************************************)
\* the conversation shows the peer as typing
PeerTyping == typingTimer # 0

\* C31: after isTyping=true from a peer in a private conversation the peer is
\* shown as typing for the 15 seconds that follow the last isTyping=true and
\* no longer; after isTyping=false the peer is not shown as typing; and while
\* the peer is not shown as typing no timeout is left to fire.
C31_PresenceFor15Seconds ==
    /\ (contactLog.lastTrue # 0 /\ now < contactLog.lastTrue + ContactTimeout)
          => PeerTyping
    /\ PeerTyping =>
          /\ contactLog.lastTrue # 0
          /\ now <= contactLog.lastTrue + ContactTimeout
    /\ ~PeerTyping => timeouts = {}

\* the presence ran out 15 seconds after an isTyping=true that was not the
\* first call
C31_Witness ==
    /\ ~PeerTyping
    /\ contactLog.n >= 2
    /\ contactLog.lastTrue > StartTime
    /\ now = contactLog.lastTrue + ContactTimeout
    /\ contactLog.commits = 2

\* C32: the conversation is committed once in a step that changes whether
\* the peer is shown as typing, and not at all in any other step.
C32_CommitOnEdgesOnly ==
    [][contactLog'.commits - contactLog.commits =
          IF PeerTyping # PeerTyping' THEN 1 ELSE 0]_vars

\* three notifyTyping calls, the last accepted one isTyping=false, with two
\* commits: one call changed nothing
C32_Witness ==
    /\ contactLog.n = 3
    /\ contactLog.commits = 2
    /\ contactLog.lastTrue = 0
    /\ ~PeerTyping

\* C33: the promise onReadMessage hands back for its markRead job is never
\* rejected, whether markRead ended or threw.
C33_MarkReadJobNeverRejects ==
    \A i \in JobIds :
        jobs[i].kind = "markRead" => jobs[i].promise # "rejected"

Recomputed(force) ==
    /\ (force \/ msg.expires_at = 0)
    /\ msg.expireTimer # 0
    /\ msg.expirationStartTimestamp # 0

\* C35: a setToExpire call changes the message and commits it only when force
\* is passed or the message had no expires_at, and only for a message with a
\* non-zero expireTimer and an expiration start; then expires_at is the start
\* plus the timer, and nothing but expires_at changes. In particular a call
\* without force on a message that has expires_at changes and commits nothing.
C35_SetToExpireIdempotent ==
    [][\A force \in BOOLEAN, hasId \in BOOLEAN :
          SetToExpireCall(force, hasId) =>
              IF Recomputed(force)
              THEN /\ msg' = [msg EXCEPT !.expires_at =
                                 msg.expirationStartTimestamp
                                     + msg.expireTimer * MsPerSecond]
                   /\ expiryLog'.commits =
                          expiryLog.commits + (IF hasId THEN 1 ELSE 0)
              ELSE /\ msg' = msg
                   /\ expiryLog'.commits = expiryLog.commits]_vars

\* two calls on a message that expires, the second without force: one commit
C35_Witness ==
    /\ expiryLog.calls = 2
    /\ ~expiryLog.force
    /\ expiryLog.commits = 1
    /\ msg.expires_at # 0

\* C36: when the expiration fires for a message the collection holds, the
\* message is removed and 'expired' is triggered once; when it fires for a
\* message the collection does not hold, nothing is removed and nothing
\* triggered; so 'expired' is triggered at most once for the message.
C36_LateFireIsNoOp ==
    /\ [](expiryLog.expired <= 1)
    /\ [][expiryLog'.fires # expiryLog.fires =>
             IF messageCollection
             THEN /\ ~messageCollection'
                  /\ expiryLog'.expired = expiryLog.expired + 1
             ELSE /\ ~messageCollection'
                  /\ expiryLog'.expired = expiryLog.expired
                  /\ removal' = removal]_vars

\* the expiration has fired twice for the message: removed once
C36_Witness ==
    /\ expiryLog.fires = 2
    /\ expiryLog.expired = 1
    /\ ~messageCollection

\* C37: a retrySend whose outstanding recipients are our own device alone
\* sends the sync message only: it ends in sendSyncMessageOnly and hands no
\* public key to sendToPubKey or sendToGroup.
C37_SelfRetryIsSyncOnly ==
    [][\A c \in calls :
          (RetryDispatchCall(c, FALSE) /\ c.recips = {Me}) =>
              /\ sendLog'.via = "sendSyncMessageOnly"
              /\ sendLog'.to = {}
              /\ msg'.sent_to = {Me}]_vars

\* a retrySend in the conversation with ourselves has sent the sync message
C37_Witness ==
    /\ convKind = "self"
    /\ sendLog.op = "retrySend"
    /\ sendLog.via = "sendSyncMessageOnly"
    /\ msg.sent_to = {Me}

\* C38: a change of the timer made locally is sent one way: as a sync
\* message only in the conversation with ourselves, to the peer in a private
\* conversation, as a sync message only in a group whose only member we are,
\* and to the group otherwise.
C38_LocalChangeSentOneWay ==
    [][\A x \in TimerInputs :
          (UpdateTimerCall(x, FALSE) /\ ~SameSetting(conv.expireTimer, x)) =>
              /\ convKind = "self" =>
                    timerLog'.dispatched = "sendSyncMessageOnly"
              /\ convKind = "private" =>
                    timerLog'.dispatched = "sendToPubKey"
              /\ (convKind = "group" /\ members = {Me}) =>
                    timerLog'.dispatched = "sendSyncMessageOnly"
              /\ (convKind = "group" /\ members # {Me}) =>
                    timerLog'.dispatched = "sendToGroup"]_vars

\* a local change in a group of which we are the only member
C38_Witness ==
    /\ timerLog.op = "update" /\ ~timerLog.remote
    /\ timerLog.notices = 1
    /\ convKind = "group" /\ members = {Me}
    /\ timerLog.dispatched = "sendSyncMessageOnly"

\* C39: this.pending is unset or is the promise of the job queued last; it
\* is unset only once that job's promise has settled; and once the job
\* queued last has finished, succeeded or failed, and no reaction is left to
\* run, it is unset.
C39_PendingIsTail ==
    /\ pending \in {0, Len(jobs)}
    /\ (pending = 0 /\ jobs # <<>>) => Settled(jobs[Len(jobs)].promise)
    /\ (jobs # <<>> /\ Finished(jobs[Len(jobs)].body) /\ microtasks = <<>>)
          => pending = 0

\* C40: no step of the handlers, of retrySend, of resend or of
\* sendSyncMessageOnly takes a recipient out of sent_to.
C40_SentToNeverShrinks ==
    [][msg.sent_to \subseteq msg'.sent_to]_vars

====
